---- MODULE Spec2Model ----
(***************************************************************************)
(* GBWT support structures (src/support.cpp): the per-node records         *)
(* (DynamicRecord, CompressedRecord, DecompressedRecord), their LF         *)
(* mappings and the byte encoding of a record.                             *)
(*                                                                         *)
(* Conventions.  An edge_type / run_type / range_type / sample_type is a   *)
(* pair <<first, second>>.  C++ vectors are sequences; a 0-based index k   *)
(* of the source is k + 1 here.  size_type, node_type and rank_type are    *)
(* unsigned words: arithmetic is taken modulo 2^WordBits.                  *)
(***************************************************************************)
EXTENDS Integers, Sequences, FiniteSets, TLC

\* Width of the unsigned word modelled for size_type (64 in the build; the
\* model keeps the wrap-around but at a width TLC's integers can hold).
WordBits == 12

\* Largest logical size (sum of run lengths) of a generated record body.
MaxSize == 4

Mod == 2 ^ WordBits

Add(a, b) == (a + b) % Mod

Sub(a, b) == (a - b + Mod) % Mod

ENDMARKER == 0

invalid_node == Mod - 1

invalid_offset == Mod - 1

invalid_edge == <<invalid_node, invalid_offset>>

MAX_OUTDEGREE_FOR_ARRAY == 4

\* Node::reverse flips the orientation bit; Node::is_reverse tests it.
NodeReverse(n) == IF n % 2 = 0 THEN n + 1 ELSE n - 1

NodeIsReverse(n) == n % 2 = 1

\* Range::empty, Range::empty_range, Range::length.
RangeEmpty(range) == Add(range[1], 1) > Add(range[2], 1)

empty_range == <<1, 0>>

RangeLength(range) == Sub(Add(range[2], 1), range[1])

(***************************************************************************)
(* DynamicRecord: [outgoing, body, body_size].                             *)
(***************************************************************************)
outdegree(r) == Len(r.outgoing)

size(r) == r.body_size

successor(r, outrank) == r.outgoing[outrank + 1][1]

offset(r, outrank) == r.outgoing[outrank + 1][2]

\* edgeTo(to, outgoing): binary search; outgoing.size() when not found.
RECURSIVE edgeToSearch(_, _, _, _)
edgeToSearch(to, outgoing, low, high) ==
  IF low < high
  THEN LET mid == low + (high - low) \div 2
       IN IF outgoing[mid + 1][1] = to THEN mid
          ELSE IF outgoing[mid + 1][1] > to
               THEN edgeToSearch(to, outgoing, low, mid)
               ELSE edgeToSearch(to, outgoing, mid + 1, high)
  ELSE Len(outgoing)

edgeTo(to, outgoing) == edgeToSearch(to, outgoing, 0, Len(outgoing))

\* The for loop of the array LFLoop: st = [last_edge, result, offset],
\* k the index of the next run.
RECURSIVE LFLoopScan(_, _, _, _)
LFLoopScan(st, body, k, i) ==
  IF k > Len(body) THEN st
  ELSE LET run == body[k]
           nst == [last_edge |-> run[1],
                   result |-> [st.result EXCEPT ![run[1] + 1][2] = Add(@, run[2])],
                   offset |-> Add(st.offset, run[2])]
       IN IF nst.offset > i THEN nst ELSE LFLoopScan(nst, body, k + 1, i)

\* A plausible slip: the overshoot of the last run is not taken back.
LFLoopNoOvershoot(result, body, i) ==
  LET st == LFLoopScan([last_edge |-> 0, result |-> result, offset |-> 0], body, 1, i)
  IN [edge |-> st.result[st.last_edge + 1], run_end |-> Sub(st.offset, 1)]

\* LFLoop(result, body, i, run_end): the edge and the run_end it sets.
LFLoop(result, body, i) ==
  LET st == LFLoopScan([last_edge |-> 0, result |-> result, offset |-> 0], body, 1, i)
      res == [st.result EXCEPT ![st.last_edge + 1][2] = Sub(@, Sub(st.offset, i))]
  IN [edge |-> res[st.last_edge + 1], run_end |-> Sub(st.offset, 1)]

\* DynamicRecord::runLF(i, run_end): run_end is left alone on the early return.
runLF(r, i, run_end) ==
  IF i >= size(r) THEN [edge |-> invalid_edge, run_end |-> run_end]
  ELSE IF outdegree(r) <= MAX_OUTDEGREE_FOR_ARRAY
       THEN LFLoop(r.outgoing, r.body, i)
       ELSE LFLoop(r.outgoing, r.body, i)

\* DynamicRecord::LF(i)
LF(r, i) == runLF(r, i, 0).edge

\* The iterator LFLoop: st = [iter, run, offset, result] are its reference
\* parameters; iter is the index of the next run to read.
RECURSIVE LFLoopIterAdvance(_, _, _, _)
LFLoopIterAdvance(st, body, i, outrank) ==
  IF st.iter <= Len(body) /\ st.offset < i
  THEN LET run == body[st.iter]
       IN LFLoopIterAdvance([iter |-> st.iter + 1,
                             run |-> run,
                             offset |-> Add(st.offset, run[2]),
                             result |-> IF run[1] = outrank
                                        THEN Add(st.result, run[2])
                                        ELSE st.result],
                            body, i, outrank)
  ELSE st

\* The value the iterator LFLoop returns from the state it leaves.
LFLoopIterValue(st, i, outrank) ==
  Sub(st.result, IF st.run[1] = outrank THEN Sub(st.offset, i) ELSE 0)

LFIterStart(r, outrank) ==
  [iter |-> 1, run |-> <<0, 0>>, offset |-> 0, result |-> offset(r, outrank)]

\* A plausible slip: the partial last run is not subtracted.
LFtoWholeRuns(r, i, to) ==
  LET outrank == edgeTo(to, r.outgoing)
  IN IF outrank >= outdegree(r) THEN invalid_offset
     ELSE LFLoopIterAdvance(LFIterStart(r, outrank), r.body, i, outrank).result

\* DynamicRecord::LF(i, to)
LFto(r, i, to) ==
  LET outrank == edgeTo(to, r.outgoing)
  IN IF outrank >= outdegree(r) THEN invalid_offset
     ELSE LET st == LFLoopIterAdvance(LFIterStart(r, outrank), r.body, i, outrank)
          IN LFLoopIterValue(st, i, outrank)

\* A plausible slip: the second accumulation restarts with a fresh run but
\* keeps the shared offset and result.
LFrangeStaleRun(r, range, to) ==
  IF RangeEmpty(range) THEN empty_range
  ELSE LET outrank == edgeTo(to, r.outgoing)
       IN IF outrank >= outdegree(r) THEN empty_range
          ELSE LET st1 == LFLoopIterAdvance(LFIterStart(r, outrank), r.body,
                                            range[1], outrank)
                   first == LFLoopIterValue(st1, range[1], outrank)
                   st2 == LFLoopIterAdvance([st1 EXCEPT !.run = <<0, 0>>], r.body,
                                            Add(range[2], 1), outrank)
                   second == Sub(LFLoopIterValue(st2, Add(range[2], 1), outrank), 1)
               IN <<first, second>>

\* DynamicRecord::LF(range, to)
LFrange(r, range, to) ==
  IF RangeEmpty(range) THEN empty_range
  ELSE LET outrank == edgeTo(to, r.outgoing)
       IN IF outrank >= outdegree(r) THEN empty_range
          ELSE LET st1 == LFLoopIterAdvance(LFIterStart(r, outrank), r.body,
                                            range[1], outrank)
                   first == LFLoopIterValue(st1, range[1], outrank)
                   st2 == LFLoopIterAdvance(st1, r.body, Add(range[2], 1), outrank)
                   second == Sub(LFLoopIterValue(st2, Add(range[2], 1), outrank), 1)
               IN <<first, second>>

\* A plausible slip: the loop counts reverse_offset but not equal.
RECURSIVE bdLFScanNoEqual(_, _, _, _, _)
bdLFScanNoEqual(st, body, limit, outrank, reverse_rank) ==
  IF st.iter <= Len(body) /\ st.offset < limit
  THEN LET run == body[st.iter]
       IN bdLFScanNoEqual([iter |-> st.iter + 1,
                           run |-> run,
                           offset |-> Add(st.offset, run[2]),
                           equal |-> st.equal,
                           reverse_offset |-> IF run[1] < reverse_rank
                                              THEN Add(st.reverse_offset, run[2])
                                              ELSE st.reverse_offset],
                          body, limit, outrank, reverse_rank)
  ELSE st

\* The while loop of bdLF: st = [iter, run, offset, equal, reverse_offset].
RECURSIVE bdLFScan(_, _, _, _, _)
bdLFScan(st, body, limit, outrank, reverse_rank) ==
  IF st.iter <= Len(body) /\ st.offset < limit
  THEN LET run == body[st.iter]
       IN bdLFScan([iter |-> st.iter + 1,
                    run |-> run,
                    offset |-> Add(st.offset, run[2]),
                    equal |-> IF run[1] = outrank
                              THEN Add(st.equal, run[2]) ELSE st.equal,
                    reverse_offset |-> IF run[1] < reverse_rank
                                       THEN Add(st.reverse_offset, run[2])
                                       ELSE st.reverse_offset],
                   body, limit, outrank, reverse_rank)
  ELSE st

\* A plausible slip: case 1 counts the ranks <= outrank.
bdLFThresholdLessEqual(r, to, outrank) ==
  LET found == edgeTo(NodeReverse(to), r.outgoing)
  IN IF found >= outdegree(r)
     THEN [reverse_rank |-> outrank + 1, subtract_equal |-> FALSE]
     ELSE IF ~NodeIsReverse(to)
          THEN [reverse_rank |-> found + 1, subtract_equal |-> TRUE]
          ELSE [reverse_rank |-> found, subtract_equal |-> FALSE]

\* A plausible slip: case 2 forgets reverse_rank++.
bdLFThresholdNoIncrement(r, to, outrank) ==
  LET found == edgeTo(NodeReverse(to), r.outgoing)
  IN IF found >= outdegree(r)
     THEN [reverse_rank |-> outrank, subtract_equal |-> FALSE]
     ELSE IF ~NodeIsReverse(to)
          THEN [reverse_rank |-> found, subtract_equal |-> TRUE]
          ELSE [reverse_rank |-> found, subtract_equal |-> FALSE]

\* bdLF: the threshold rank and the subtract_equal flag of the three cases.
bdLFThreshold(r, to, outrank) ==
  LET found == edgeTo(NodeReverse(to), r.outgoing)
  IN IF found >= outdegree(r)
     THEN [reverse_rank |-> outrank, subtract_equal |-> FALSE]
     ELSE IF ~NodeIsReverse(to)
          THEN [reverse_rank |-> found + 1, subtract_equal |-> TRUE]
          ELSE [reverse_rank |-> found, subtract_equal |-> FALSE]

\* The body of bdLF after the two early returns.
bdLFCore(r, range, to, outrank) ==
  LET st1 == LFLoopIterAdvance(LFIterStart(r, outrank), r.body, range[1], outrank)
      sp == LFLoopIterValue(st1, range[1], outrank)
      th == bdLFThreshold(r, to, outrank)
      equal0 == IF st1.run[1] = outrank THEN Sub(st1.offset, range[1]) ELSE 0
      ro0 == IF st1.run[1] < th.reverse_rank THEN Sub(st1.offset, range[1]) ELSE 0
      second == Add(range[2], 1)
      st2 == bdLFScan([iter |-> st1.iter, run |-> st1.run, offset |-> st1.offset,
                       equal |-> equal0, reverse_offset |-> ro0],
                      r.body, second, outrank, th.reverse_rank)
      equal1 == IF st2.run[1] = outrank
                THEN Sub(st2.equal, Sub(st2.offset, second)) ELSE st2.equal
      ro1 == IF st2.run[1] < th.reverse_rank
             THEN Sub(st2.reverse_offset, Sub(st2.offset, second))
             ELSE st2.reverse_offset
      ro2 == IF th.subtract_equal THEN Sub(ro1, equal1) ELSE ro1
  IN [range |-> <<sp, Sub(Add(sp, equal1), 1)>>, reverse_offset |-> ro2]

\* A plausible slip: the forward range ends one position too far.
bdLFLongRange(r, range, to, reverse_offset) ==
  IF RangeEmpty(range) THEN [range |-> empty_range, reverse_offset |-> reverse_offset]
  ELSE LET outrank == edgeTo(to, r.outgoing)
       IN IF outrank >= outdegree(r)
          THEN [range |-> empty_range, reverse_offset |-> reverse_offset]
          ELSE LET res == bdLFCore(r, range, to, outrank)
               IN [res EXCEPT !.range[2] = Add(@, 1)]

\* DynamicRecord::bdLF(range, to, reverse_offset): the range it returns and
\* the value it leaves in reverse_offset (untouched on the early returns).
bdLF(r, range, to, reverse_offset) ==
  IF RangeEmpty(range) THEN [range |-> empty_range, reverse_offset |-> reverse_offset]
  ELSE LET outrank == edgeTo(to, r.outgoing)
       IN IF outrank >= outdegree(r)
          THEN [range |-> empty_range, reverse_offset |-> reverse_offset]
          ELSE bdLFCore(r, range, to, outrank)

\* DynamicRecord::operator[]
RECURSIVE DynamicAtScan(_, _, _, _)
DynamicAtScan(r, k, off, i) ==
  IF k > Len(r.body) THEN ENDMARKER
  ELSE LET noff == Add(off, r.body[k][2])
       IN IF noff > i THEN successor(r, r.body[k][1])
          ELSE DynamicAtScan(r, k + 1, noff, i)

DynamicAt(r, i) == IF i >= size(r) THEN ENDMARKER ELSE DynamicAtScan(r, 1, 0, i)

\* DynamicRecord::hasEdge
hasEdge(r, to) == \E outrank \in 0..(outdegree(r) - 1) : successor(r, outrank) = to

\* DynamicRecord::edgeToLinear: the first rank whose successor is `to`.
edgeToLinear(r, to) ==
  IF hasEdge(r, to)
  THEN CHOOSE outrank \in 0..(outdegree(r) - 1) :
         /\ successor(r, outrank) = to
         /\ \A lower \in 0..(outrank - 1) : successor(r, lower) # to
  ELSE outdegree(r)

\* DynamicRecord::empty
empty(r) == size(r) = 0

\* The order sequentialSort puts edges in: by node, then by offset.
EdgeLess(a, b) == a[1] < b[1] \/ (a[1] = b[1] /\ a[2] < b[2])

\* sequentialSort(begin, end): the edges in increasing order.
RECURSIVE sequentialSort(_)
sequentialSort(edges) ==
  IF edges = <<>> THEN <<>>
  ELSE LET rest == sequentialSort(Tail(edges))
           below == SelectSeq(rest, LAMBDA e : EdgeLess(e, Head(edges)))
           above == SelectSeq(rest, LAMBDA e : ~EdgeLess(e, Head(edges)))
       IN below \o <<Head(edges)>> \o above

\* recode(): the test that finds outgoing sorted by successor.
recodeSorted(r) ==
  \A outrank \in 1..(outdegree(r) - 1) :
    ~(successor(r, outrank) < successor(r, outrank - 1))

\* The body with every rank replaced by its successor node.
ranksToNodes(r) ==
  [k \in 1..Len(r.body) |-> <<successor(r, r.body[k][1]), r.body[k][2]>>]

\* A body of nodes with every node replaced by edgeTo(node).
nodesToRanks(body, outgoing) ==
  [k \in 1..Len(body) |-> <<edgeTo(body[k][1], outgoing), body[k][2]>>]

\* A plausible slip: outgoing is sorted and the body keeps its old ranks.
recodeKeepRanks(r) ==
  IF empty(r) \/ recodeSorted(r) THEN r
  ELSE [r EXCEPT !.outgoing = sequentialSort(r.outgoing)]

\* DynamicRecord::recode
recode(r) ==
  IF empty(r) THEN r
  ELSE IF recodeSorted(r) THEN r
  ELSE LET sorted == sequentialSort(r.outgoing)
       IN [r EXCEPT !.outgoing = sorted,
                    !.body = nodesToRanks(ranksToNodes(r), sorted)]

\* removeUnusedEdges(): used[rank] after the first loop.
usedRanks(r) == {r.body[k][1] : k \in 1..Len(r.body)}

\* removeUnusedEdges(): outgoing after the compaction and the resize.
RECURSIVE compactOutgoing(_, _, _)
compactOutgoing(outgoing, used, i) ==
  IF i >= Len(outgoing) THEN <<>>
  ELSE (IF i \in used THEN <<outgoing[i + 1]>> ELSE <<>>)
       \o compactOutgoing(outgoing, used, i + 1)

\* A plausible slip: the edges are removed and the body keeps its old ranks.
removeUnusedEdgesKeepRanks(r) ==
  [r EXCEPT !.outgoing = compactOutgoing(r.outgoing, usedRanks(r), 0)]

\* DynamicRecord::removeUnusedEdges
removeUnusedEdges(r) ==
  LET kept == compactOutgoing(r.outgoing, usedRanks(r), 0)
  IN [r EXCEPT !.outgoing = kept,
               !.body = nodesToRanks(ranksToNodes(r), kept)]

(***************************************************************************)
(* DecompressedRecord: [outgoing, after, body].                            *)
(***************************************************************************)
\* A plausible slip: `after` is advanced once per run, not once per position.
DecompressRunStale(d, rank, n) ==
  [d EXCEPT !.body = @ \o [j \in 1..n |-> d.after[rank + 1]],
            !.after[rank + 1][2] = (@ + n) % Mod]

\* The inner loop of the constructors over the n positions of one run: the
\* j-th pass appends after[rank] and advances its offset by one.
DecompressRun(d, rank, n) ==
  [d EXCEPT !.body = @ \o [j \in 1..n |-> <<d.after[rank + 1][1],
                                            Add(d.after[rank + 1][2], j - 1)>>],
            !.after[rank + 1][2] = (@ + n) % Mod]

\* The outer loop over a sequence of runs, from run k on.
RECURSIVE DecompressRuns(_, _, _)
DecompressRuns(d, runs, k) ==
  IF k > Len(runs) THEN d
  ELSE DecompressRuns(DecompressRun(d, runs[k][1], runs[k][2]), runs, k + 1)

\* DecompressedRecord::DecompressedRecord(const DynamicRecord&)
DecompressedFromDynamic(source) ==
  DecompressRuns([outgoing |-> source.outgoing, after |-> source.outgoing,
                  body |-> <<>>], source.body, 1)

DecompressedSize(d) == Len(d.body)

\* DecompressedRecord::LF(i)
DecompressedLF(d, i) == IF i >= DecompressedSize(d) THEN invalid_edge ELSE d.body[i + 1]

\* DecompressedRecord::operator[]
DecompressedAt(d, i) == IF i >= DecompressedSize(d) THEN ENDMARKER ELSE d.body[i + 1][1]

\* A plausible slip: the loop compares the edges, not their successors.
RECURSIVE DecompressedRunEndByEdge(_, _, _)
DecompressedRunEndByEdge(d, i, run_end) ==
  IF run_end + 1 < DecompressedSize(d) /\ d.body[run_end + 2] = d.body[i + 1]
  THEN DecompressedRunEndByEdge(d, i, run_end + 1)
  ELSE run_end

\* DecompressedRecord::runLF, the loop that advances run_end.
RECURSIVE DecompressedRunEnd(_, _, _)
DecompressedRunEnd(d, i, run_end) ==
  IF run_end + 1 < DecompressedSize(d) /\ d.body[run_end + 2][1] = d.body[i + 1][1]
  THEN DecompressedRunEnd(d, i, run_end + 1)
  ELSE run_end

\* DecompressedRecord::runLF(i, run_end): run_end is left alone on the early
\* return.
DecompressedRunLF(d, i, run_end) ==
  IF i >= DecompressedSize(d) THEN [edge |-> invalid_edge, run_end |-> run_end]
  ELSE [edge |-> d.body[i + 1], run_end |-> DecompressedRunEnd(d, i, i)]

(***************************************************************************)
(* The byte codecs and the record encoding.  Bytes are 0..255 and a        *)
(* position in a byte vector is 0-based, as in the source.                 *)
(***************************************************************************)
\* ByteCode::write: 7 data bits per byte, low bits first, the high bit set
\* on every byte but the last.
RECURSIVE ByteCodeWrite(_, _)
ByteCodeWrite(bytes, value) ==
  IF value > 127
  THEN ByteCodeWrite(Append(bytes, (value % 128) + 128), value \div 128)
  ELSE Append(bytes, value)

\* ByteCode::read(source, pos): the value and the advanced position.
RECURSIVE ByteCodeReadFrom(_, _, _, _)
ByteCodeReadFrom(source, pos, shift, acc) ==
  LET byte == source[pos + 1]
      value == (acc + (byte % 128) * (2 ^ shift)) % Mod
  IN IF byte >= 128 THEN ByteCodeReadFrom(source, pos + 1, shift + 7, value)
     ELSE [value |-> value, pos |-> pos + 1]

ByteCodeRead(source, pos) == ByteCodeReadFrom(source, pos, 0, 0)

\* Run codec over sigma ranks: a run (rank, length) is one byte
\* rank + sigma * (length - 1) while length < run_continues; a longer run is
\* the byte of length run_continues followed by the rest of the length.
RunContinues(sigma) == IF sigma < 255 THEN 256 \div sigma ELSE 0

RunWrite(bytes, run, sigma) ==
  IF RunContinues(sigma) = 0
  THEN ByteCodeWrite(ByteCodeWrite(bytes, run[1]), run[2] - 1)
  ELSE IF run[2] < RunContinues(sigma)
       THEN Append(bytes, run[1] + sigma * (run[2] - 1))
       ELSE ByteCodeWrite(Append(bytes, run[1] + sigma * (RunContinues(sigma) - 1)),
                          run[2] - RunContinues(sigma))

\* Run::read(source, pos): the run and the advanced position.
RunRead(source, pos, sigma) ==
  IF RunContinues(sigma) = 0
  THEN LET first == ByteCodeRead(source, pos)
           second == ByteCodeRead(source, first.pos)
       IN [run |-> <<first.value, Add(second.value, 1)>>, pos |-> second.pos]
  ELSE LET code == source[pos + 1]
           rank == code % sigma
           len == code \div sigma + 1
       IN IF len >= RunContinues(sigma)
          THEN LET rest == ByteCodeRead(source, pos + 1)
               IN [run |-> <<rank, Add(len, rest.value)>>, pos |-> rest.pos]
          ELSE [run |-> <<rank, len>>, pos |-> pos + 1]

\* A plausible slip: prev is never updated, every destination is written
\* as a delta against the initial 0.
RECURSIVE writeEdgesNoPrev(_, _, _, _)
writeEdgesNoPrev(bytes, outgoing, k, prev) ==
  IF k > Len(outgoing) THEN bytes
  ELSE writeEdgesNoPrev(ByteCodeWrite(ByteCodeWrite(bytes, Sub(outgoing[k][1], prev)),
                                      outgoing[k][2]),
                        outgoing, k + 1, prev)

\* writeBWT: the loop over the outgoing edges, from edge k on.
RECURSIVE writeEdges(_, _, _, _)
writeEdges(bytes, outgoing, k, prev) ==
  IF k > Len(outgoing) THEN bytes
  ELSE writeEdges(ByteCodeWrite(ByteCodeWrite(bytes, Sub(outgoing[k][1], prev)),
                                outgoing[k][2]),
                  outgoing, k + 1, outgoing[k][1])

\* writeBWT: the loop over the body, from run k on.
RECURSIVE writeRuns(_, _, _, _)
writeRuns(bytes, body, k, sigma) ==
  IF k > Len(body) THEN bytes
  ELSE writeRuns(RunWrite(bytes, body[k], sigma), body, k + 1, sigma)

\* DynamicRecord::writeBWT(data): the bytes appended to data.
writeBWT(bytes, r) ==
  LET head == ByteCodeWrite(bytes, outdegree(r))
      edges == writeEdges(head, r.outgoing, 1, 0)
  IN IF outdegree(r) > 0 THEN writeRuns(edges, r.body, 1, outdegree(r)) ELSE edges

(***************************************************************************)
(* CompressedRecord: [outgoing, body, data_size]; body is the position in  *)
(* the source vector the body pointer refers to.                           *)
(***************************************************************************)
\* The constructor's loop over the n outgoing edges still to read.
RECURSIVE readEdges(_, _, _, _, _)
readEdges(source, pos, n, prev, outgoing) ==
  IF n = 0 THEN [outgoing |-> outgoing, pos |-> pos]
  ELSE LET first == ByteCodeRead(source, pos)
           node == Add(first.value, prev)
           second == ByteCodeRead(source, first.pos)
       IN readEdges(source, second.pos, n - 1, node,
                    Append(outgoing, <<node, second.value>>))

\* CompressedRecord::CompressedRecord(source, start, limit)
CompressedRecordOf(source, start, limit) ==
  LET head == ByteCodeRead(source, start)
      edges == readEdges(source, head.pos, head.value, 0, <<>>)
  IN [outgoing |-> edges.outgoing, body |-> edges.pos,
      data_size |-> Sub(limit, edges.pos)]

\* The runs a CompressedRecordIterator yields from offset off of the body
\* until it reaches data_size.
RECURSIVE CompressedRunsFrom(_, _, _)
CompressedRunsFrom(c, source, off) ==
  IF off >= c.data_size THEN <<>>
  ELSE LET rd == RunRead(source, c.body + off, Len(c.outgoing))
       IN <<rd.run>> \o CompressedRunsFrom(c, source, rd.pos - c.body)

CompressedRuns(c, source) == CompressedRunsFrom(c, source, 0)

\* DecompressedRecord::DecompressedRecord(const CompressedRecord&)
DecompressedFromCompressed(c, source) ==
  DecompressRuns([outgoing |-> c.outgoing, after |-> c.outgoing, body |-> <<>>],
                 CompressedRuns(c, source), 1)

(***************************************************************************)
(* The records and the inputs the operations are applied to.               *)
(***************************************************************************)
\* ret holds a returned pair (edge or range), val a returned number.
VARIABLES record, call, ret, val, reverse_offset, decompressed, data, compressed

\* original is the record as it was before recode() / removeUnusedEdges().
VARIABLES original

\* bwt is the vector of records a RecordArray is built from and array the
\* RecordArray built; sources, origins and record_offsets are the arguments
\* of the merge constructor and merged its merged endmarker record.
VARIABLES bwt, array, sources, origins, record_offsets, merged

\* samples is the DASamples object built and position the (record, offset)
\* it is asked about; sample_sources and sequence_counts are arguments of the
\* merge constructor of DASamples (with origins and record_offsets).
VARIABLES samples, position, sample_sources, sequence_counts

\* arrayObjects and sampleObjects are the RecordArray and DASamples objects
\* alive at each address, with the vector each of their supports refers to.
VARIABLES arrayObjects, sampleObjects

objectVars == <<arrayObjects, sampleObjects>>

\* dictionary is the Dictionary appended to, appended the Dictionary that is
\* appended and dictionary_before the Dictionary as it was before append().
VARIABLES dictionary, appended, dictionary_before

dictionaryVars == <<dictionary, appended, dictionary_before>>

\* metadata is the Metadata merged into, metadata_source the Metadata merged
\* from, metadata_before the Metadata as it was before merge(), same the
\* arguments (same_samples, same_contigs) and serialized what serialize()
\* wrote.
VARIABLES metadata, metadata_source, metadata_before, same, serialized

metadataVars == <<metadata, metadata_source, metadata_before, same, serialized>>

\* incoming is the list of incoming edges of a record, increments the number
\* of increment() calls made for each node and counted a node with its
\* countBefore() and countUntil().
VARIABLES incoming, increments, counted

incomingVars == <<incoming, increments, counted>>

\* run_ends holds the run_end set by runLF() of the record and by runLF() of
\* the DecompressedRecord built from it.
VARIABLES run_ends

runVars == <<run_ends>>

\* The variables of the dictionaries, the metadata, the incoming edges and
\* the run ends.
laterVars == <<dictionaryVars, metadataVars, incomingVars, runVars>>

vars == <<record, call, ret, val, reverse_offset, decompressed, data, compressed,
          original, bwt, array, sources, origins, record_offsets, merged,
          samples, position, sample_sources, sequence_counts,
          arrayObjects, sampleObjects, dictionary, appended, dictionary_before,
          metadata, metadata_source, metadata_before, same, serialized,
          incoming, increments, counted, run_ends>>

arrayVars == <<bwt, array, sources, origins, record_offsets, merged>>

sampleVars == <<samples, position, sample_sources, sequence_counts>>

\* The variables the queries and the codec do not touch, and their values
\* while nothing uses them.
otherVars == <<original, arrayVars, sampleVars, objectVars, laterVars>>

EmptyRecord == [outgoing |-> <<>>, body |-> <<>>, body_size |-> 0]

EmptyArray == [records |-> 0, index |-> <<>>, data |-> <<>>]

EditIdle == original = EmptyRecord

ArrayIdle ==
  /\ bwt = <<>>
  /\ array = EmptyArray
  /\ sources = <<>>
  /\ origins = <<>>
  /\ record_offsets = <<>>
  /\ merged = EmptyRecord

EmptySamples ==
  [sampled_records |-> <<>>, bwt_ranges |-> <<>>, sampled_offsets |-> <<>>, array |-> <<>>]

NoPosition == [record |-> 0, offset |-> 0]

SamplesIdle ==
  /\ samples = EmptySamples
  /\ position = NoPosition
  /\ sample_sources = <<>>
  /\ sequence_counts = <<>>

\* The addresses objects live at.
MaxObjects == 2

Objects == 1..MaxObjects

\* The address of a vector of an object, and the null pointer.
AddressOf(object, vector) == [object |-> object, vector |-> vector]

nullptr == [object |-> 0, vector |-> "none"]

\* RecordArray::RecordArray()
RecordArrayDefault == [records |-> 0, index |-> 0, select |-> nullptr, data |-> 0]

\* DASamples::DASamples()
DASamplesDefault ==
  [sampled_records |-> 0, record_rank |-> nullptr,
   bwt_ranges |-> 0, bwt_select |-> nullptr,
   sampled_offsets |-> 0, sample_rank |-> nullptr,
   array |-> 0]

ObjectsIdle ==
  /\ arrayObjects = [o \in Objects |-> RecordArrayDefault]
  /\ sampleObjects = [o \in Objects |-> DASamplesDefault]

\* Dictionary::Dictionary()
DictionaryDefault == [offsets |-> <<0>>, sorted_ids |-> <<>>, data |-> <<>>]

DictionaryIdle ==
  /\ dictionary = DictionaryDefault
  /\ appended = DictionaryDefault
  /\ dictionary_before = DictionaryDefault

\* Metadata::Metadata()
MetadataDefault ==
  [sample_count |-> 0, haplotype_count |-> 0, contig_count |-> 0, flags |-> {},
   path_names |-> <<>>, sample_names |-> DictionaryDefault,
   contig_names |-> DictionaryDefault]

MetadataIdle ==
  /\ metadata = MetadataDefault
  /\ metadata_source = MetadataDefault
  /\ metadata_before = MetadataDefault
  /\ same = <<FALSE, FALSE>>
  /\ serialized = <<>>

\* The nodes increment() and the counts are called with.
CountNodes == 0..6

IncomingIdle ==
  /\ incoming = <<>>
  /\ increments = [v \in CountNodes |-> 0]
  /\ counted = [node |-> 0, before |-> 0, until |-> 0]

RunIdle == run_ends = [dynamic |-> 0, decompressed |-> 0]

LaterIdle == DictionaryIdle /\ MetadataIdle /\ IncomingIdle /\ RunIdle

OtherIdle == EditIdle /\ ArrayIdle /\ SamplesIdle /\ ObjectsIdle /\ LaterIdle

\* Successor nodes: two forward/reverse pairs, (2, 3) and (4, 5).
NodeSet == {2, 3, 4, 5}

\* Query targets: the successor nodes and a node no generated record has.
QueryNodes == NodeSet \cup {6}

\* Offsets of the outgoing edges, by rank.
OffsetSchemes == {<<0, 2, 5>>, <<10, 20, 30>>}

\* The largest outdegree of a generated record: one offset per rank.
MaxOutdegree == Len(CHOOSE offs \in OffsetSchemes : TRUE)

RECURSIVE SumRuns(_)
SumRuns(body) == IF body = <<>> THEN 0 ELSE body[1][2] + SumRuns(Tail(body))

\* All bodies of logical size exactly n over k ranks (runs of length > 0;
\* consecutive runs may share a rank).
RECURSIVE BodiesOfSize(_, _)
BodiesOfSize(k, n) ==
  IF n = 0 THEN {<<>>}
  ELSE UNION {{<<<<rk, len>>>> \o b : rk \in 0..(k - 1), b \in BodiesOfSize(k, n - len)}
              : len \in 1..n}

Bodies(k) == UNION {BodiesOfSize(k, n) : n \in 0..MaxSize}

\* Outgoing lists sorted by successor, successors unique.
RECURSIVE Zip(_, _, _)
Zip(s, offs, k) == IF k = 0 THEN <<>> ELSE Append(Zip(s, offs, k - 1), <<s[k], offs[k]>>)

SortedOutgoing ==
  UNION {{Zip(s, offs, k) :
            s \in {t \in [1..k -> NodeSet] : \A j \in 1..(k - 1) : t[j] < t[j + 1]},
            offs \in OffsetSchemes}
         : k \in 0..MaxOutdegree}

MakeRecord(outgoing, body) ==
  [outgoing |-> outgoing, body |-> body, body_size |-> SumRuns(body)]

\* The records of the literal scenarios: one successor; two successors;
\* three successors with a forward/reverse pair.
Scenario1 == MakeRecord(<<<<4, 0>>>>, <<<<0, 5>>>>)

Scenario2 == MakeRecord(<<<<4, 0>>, <<6, 3>>>>, <<<<0, 2>>, <<1, 3>>, <<0, 1>>>>)

Scenario4 == MakeRecord(<<<<4, 10>>, <<5, 20>>, <<6, 30>>>>,
                        <<<<0, 1>>, <<1, 2>>, <<2, 1>>, <<0, 1>>, <<1, 1>>>>)

Records ==
  {MakeRecord(out, body) : out \in SortedOutgoing, body \in Bodies(MaxOutdegree)}

ValidRecord(r) == \A k \in 1..Len(r.body) : r.body[k][1] < outdegree(r)

QueryRecords == {r \in Records : ValidRecord(r)} \cup {Scenario1, Scenario2, Scenario4}

Positions(r) == 0..(size(r) + 2)

Ranges(r) == {<<a, b>> : a \in 0..(size(r) + 1), b \in 0..(size(r) + 1)}

NoCall == [op |-> "init", i |-> 0, to |-> 0, range |-> <<0, 0>>]

Init ==
  /\ record \in QueryRecords
  /\ call = NoCall
  /\ ret = <<0, 0>>
  /\ val = 0
  /\ reverse_offset = 0
  /\ decompressed = [outgoing |-> <<>>, after |-> <<>>, body |-> <<>>]
  /\ data = <<>>
  /\ compressed = [outgoing |-> <<>>, body |-> 0, data_size |-> 0]
  /\ OtherIdle

\* r.LF(i)
CallLF ==
  /\ call.op = "init"
  /\ \E i \in Positions(record) :
       /\ call' = [NoCall EXCEPT !.op = "LF", !.i = i]
       /\ ret' = LF(record, i)
  /\ UNCHANGED <<record, val, reverse_offset, decompressed, data, compressed>>
  /\ UNCHANGED otherVars

\* r.LF(i, to)
CallLFto ==
  /\ call.op = "init"
  /\ \E i \in Positions(record), to \in QueryNodes :
       /\ call' = [NoCall EXCEPT !.op = "LFto", !.i = i, !.to = to]
       /\ val' = LFto(record, i, to)
  /\ UNCHANGED <<record, ret, reverse_offset, decompressed, data, compressed>>
  /\ UNCHANGED otherVars

\* r.LF(range, to)
CallLFrange ==
  /\ call.op = "init"
  /\ \E range \in Ranges(record), to \in QueryNodes :
       /\ range[1] <= range[2] + 1
       /\ call' = [NoCall EXCEPT !.op = "LFrange", !.range = range, !.to = to]
       /\ ret' = LFrange(record, range, to)
  /\ UNCHANGED <<record, val, reverse_offset, decompressed, data, compressed>>
  /\ UNCHANGED otherVars

\* r.bdLF(range, to, reverse_offset); the caller's variable holds 0 or a
\* leftover before the call.
CallBdLF ==
  /\ call.op = "init"
  /\ \E range \in Ranges(record), to \in QueryNodes, before \in {0, 9} :
       /\ range[1] <= range[2] + 1
       /\ call' = [NoCall EXCEPT !.op = "bdLF", !.range = range, !.to = to]
       /\ ret' = bdLF(record, range, to, before).range
       /\ reverse_offset' = bdLF(record, range, to, before).reverse_offset
  /\ UNCHANGED <<record, val, decompressed, data, compressed>>
  /\ UNCHANGED otherVars

\* r[i]
CallAt ==
  /\ call.op = "init"
  /\ \E i \in Positions(record) :
       /\ call' = [NoCall EXCEPT !.op = "at", !.i = i]
       /\ val' = DynamicAt(record, i)
  /\ UNCHANGED <<record, ret, reverse_offset, decompressed, data, compressed>>
  /\ UNCHANGED otherVars

\* DecompressedRecord d(r)
Decompress ==
  /\ call.op = "init"
  /\ call' = [NoCall EXCEPT !.op = "decompress"]
  /\ decompressed' = DecompressedFromDynamic(record)
  /\ UNCHANGED <<record, ret, val, reverse_offset, data, compressed>>
  /\ UNCHANGED otherVars

\* d.LF(i)
CallDecompressedLF ==
  /\ call.op = "decompress"
  /\ \E i \in Positions(record) :
       /\ call' = [NoCall EXCEPT !.op = "dLF", !.i = i]
       /\ ret' = DecompressedLF(decompressed, i)
  /\ UNCHANGED <<record, val, reverse_offset, decompressed, data, compressed>>
  /\ UNCHANGED otherVars

\* d[i]
CallDecompressedAt ==
  /\ call.op = "decompress"
  /\ \E i \in Positions(record) :
       /\ call' = [NoCall EXCEPT !.op = "dAt", !.i = i]
       /\ val' = DecompressedAt(decompressed, i)
  /\ UNCHANGED <<record, ret, reverse_offset, decompressed, data, compressed>>
  /\ UNCHANGED otherVars

Next ==
  \/ CallLF
  \/ CallLFto
  \/ CallLFrange
  \/ CallBdLF
  \/ CallAt
  \/ Decompress
  \/ CallDecompressedLF
  \/ CallDecompressedAt

Spec == Init /\ [][Next]_vars

\* r.runLF(i, run_end) and d.runLF(i, run_end) for the DecompressedRecord d
\* built from r; both callers' variables hold 0 or a leftover before.
CallRunLF ==
  /\ call.op = "decompress"
  /\ \E i \in Positions(record), before \in {0, 9} :
       /\ call' = [NoCall EXCEPT !.op = "runLF", !.i = i]
       /\ ret' = runLF(record, i, before).edge
       /\ run_ends' = [dynamic |-> runLF(record, i, before).run_end,
                       decompressed |-> DecompressedRunLF(decompressed, i, before).run_end]
  /\ UNCHANGED <<record, val, reverse_offset, decompressed, data, compressed>>
  /\ UNCHANGED <<original, arrayVars, sampleVars, objectVars>>
  /\ UNCHANGED <<dictionaryVars, metadataVars, incomingVars>>

NextRunLF ==
  \/ Decompress
  \/ CallRunLF

SpecRunLF == Init /\ [][NextRunLF]_vars

(***************************************************************************)
(* Encoding a record and reading it back.                                  *)
(***************************************************************************)
\* Successors of the encoded records (one needs two bytes), in any order.
CodecNodes == {2, 5, 300}

\* Offsets by rank; the second scheme needs two bytes per offset.
CodecOffsetSchemes == {<<0, 2, 5>>, <<200, 130, 4000>>}

Injective(s) ==
  \A j \in 1..Len(s) : \A k \in 1..Len(s) : s[j] = s[k] => j = k

CodecOutgoing ==
  UNION {{Zip(s, offs, k) :
            s \in {t \in [1..k -> CodecNodes] : Injective(t)},
            offs \in CodecOffsetSchemes}
         : k \in 0..MaxOutdegree}

\* Runs at and past the length where the run codec continues in a second
\* code (256 for one rank, 85 for three).
LongRun1 == MakeRecord(<<<<4, 0>>>>, <<<<0, 255>>, <<0, 300>>, <<0, 256>>>>)

LongRun3 ==
  MakeRecord(<<<<2, 7>>, <<4, 0>>, <<9, 1>>>>, <<<<2, 84>>, <<1, 85>>, <<0, 90>>, <<2, 1>>>>)

CodecRecords ==
  {r \in {MakeRecord(out, body) : out \in CodecOutgoing, body \in Bodies(MaxOutdegree)}
     : ValidRecord(r)}
  \cup {Scenario2, LongRun1, LongRun3}

\* The data vector before the record is written: empty, or holding an
\* empty record (one zero byte) already.
InitCodec ==
  /\ record \in CodecRecords
  /\ call = NoCall
  /\ ret = <<0, 0>>
  /\ val = 0
  /\ reverse_offset = 0
  /\ decompressed = [outgoing |-> <<>>, after |-> <<>>, body |-> <<>>]
  /\ data \in {<<>>, <<0>>}
  /\ compressed = [outgoing |-> <<>>, body |-> 0, data_size |-> 0]
  /\ OtherIdle

\* r.writeBWT(data); call.i keeps where the record starts.
WriteBWT ==
  /\ call.op = "init"
  /\ call' = [NoCall EXCEPT !.op = "writeBWT", !.i = Len(data)]
  /\ data' = writeBWT(data, record)
  /\ UNCHANGED <<record, ret, val, reverse_offset, decompressed, compressed>>
  /\ UNCHANGED otherVars

\* CompressedRecord c(data, start, limit)
Compress ==
  /\ call.op = "writeBWT"
  /\ call' = [call EXCEPT !.op = "compress"]
  /\ compressed' = CompressedRecordOf(data, call.i, Len(data))
  /\ UNCHANGED <<record, ret, val, reverse_offset, decompressed, data>>
  /\ UNCHANGED otherVars

\* DecompressedRecord d(c)
DecompressCompressed ==
  /\ call.op = "compress"
  /\ call' = [call EXCEPT !.op = "decompressC"]
  /\ decompressed' = DecompressedFromCompressed(compressed, data)
  /\ UNCHANGED <<record, ret, val, reverse_offset, data, compressed>>
  /\ UNCHANGED otherVars

NextCodec ==
  \/ WriteBWT
  \/ Compress
  \/ DecompressCompressed

SpecCodec == InitCodec /\ [][NextCodec]_vars

(***************************************************************************)
(* Bit vectors with rank and select (sdsl).  A vector is a sequence of     *)
(* bits; positions count from 0.                                           *)
(***************************************************************************)
\* sd_vector_builder(n, m) after set(p) for every p in positions.
BitVector(n, positions) == [p \in 1..n |-> IF (p - 1) \in positions THEN 1 ELSE 0]

\* rank(i): the number of 1-bits at positions < i.
Rank1(bits, i) == Cardinality({p \in 1..Len(bits) : p <= i /\ bits[p] = 1})

\* select(k): the position of the k-th 1-bit, k = 1, 2, ...
Select1(bits, k) ==
  CHOOSE q \in 0..(Len(bits) - 1) : bits[q + 1] = 1 /\ Rank1(bits, q) = k - 1

Ones(bits) == Rank1(bits, Len(bits))

(***************************************************************************)
(* RecordArray: [records, index, data].                                    *)
(***************************************************************************)
RecordArraySize(a) == a.records

RecordArrayEmpty(a) == RecordArraySize(a) = 0

\* RecordArray::start(record) / limit(record)
RecordArrayStart(a, rec) == Select1(a.index, rec + 1)

RecordArrayLimit(a, rec) ==
  IF rec + 1 < RecordArraySize(a) THEN Select1(a.index, rec + 2) ELSE Len(a.data)

\* RecordArray::buildIndex
buildIndex(bytes, offsets) ==
  BitVector(Len(bytes), {offsets[k] : k \in 1..Len(offsets)})

\* A plausible slip: the offset of a record is taken after it was written.
RECURSIVE writeRecordsOffsetAfter(_, _, _)
writeRecordsOffsetAfter(st, records, i) ==
  IF i >= Len(records) THEN st
  ELSE LET written == writeBWT(st.data, records[i + 1])
       IN writeRecordsOffsetAfter([data |-> written,
                                   offsets |-> Append(st.offsets, Len(written))],
                                  records, i + 1)

\* RecordArray(bwt): the loop that notes each offset and writes each record,
\* from record i on; st = [data, offsets].
RECURSIVE writeRecords(_, _, _)
writeRecords(st, records, i) ==
  IF i >= Len(records) THEN st
  ELSE writeRecords([data |-> writeBWT(st.data, records[i + 1]),
                     offsets |-> Append(st.offsets, Len(st.data))],
                    records, i + 1)

\* RecordArray::RecordArray(const std::vector<DynamicRecord>&)
RecordArrayFromBWT(records) ==
  LET st == writeRecords([data |-> <<>>, offsets |-> <<>>], records, 0)
  IN [records |-> Len(records), index |-> buildIndex(st.data, st.offsets),
      data |-> st.data]

\* A plausible slip: the ranks of a source are not shifted by the outdegree
\* merged so far.
RECURSIVE mergeEndmarkersNoShift(_, _, _)
mergeEndmarkersNoShift(st, srcs, i) ==
  IF i > Len(srcs) THEN st
  ELSE IF RecordArrayEmpty(srcs[i]) THEN mergeEndmarkersNoShift(st, srcs, i + 1)
  ELSE LET start == RecordArrayStart(srcs[i], ENDMARKER)
           limit == RecordArrayLimit(srcs[i], ENDMARKER)
           rec == CompressedRecordOf(srcs[i].data, start, limit)
           runs == CompressedRuns(rec, srcs[i].data)
       IN mergeEndmarkersNoShift(
            [merged |-> [outgoing |-> st.merged.outgoing \o rec.outgoing,
                         body |-> st.merged.body \o runs,
                         body_size |-> Add(st.merged.body_size, SumRuns(runs) % Mod)],
             limits |-> [st.limits EXCEPT ![i] = limit]],
            srcs, i + 1)

\* The merge constructor, merging the endmarkers: source i (from 1) on;
\* st = [merged, limits].
RECURSIVE mergeEndmarkers(_, _, _)
mergeEndmarkers(st, srcs, i) ==
  IF i > Len(srcs) THEN st
  ELSE IF RecordArrayEmpty(srcs[i]) THEN mergeEndmarkers(st, srcs, i + 1)
  ELSE LET start == RecordArrayStart(srcs[i], ENDMARKER)
           limit == RecordArrayLimit(srcs[i], ENDMARKER)
           rec == CompressedRecordOf(srcs[i].data, start, limit)
           runs == CompressedRuns(rec, srcs[i].data)
           shift == outdegree(st.merged)
           shifted == [k \in 1..Len(runs) |-> <<Add(runs[k][1], shift), runs[k][2]>>]
       IN mergeEndmarkers(
            [merged |-> [outgoing |-> st.merged.outgoing \o rec.outgoing,
                         body |-> st.merged.body \o shifted,
                         body_size |-> Add(st.merged.body_size,
                                           SumRuns(runs) % Mod)],
             limits |-> [st.limits EXCEPT ![i] = limit]],
            srcs, i + 1)

\* The merge constructor, merging the BWTs: destination record comp on;
\* st = [data, offsets, limits].
RECURSIVE mergeRecords(_, _, _, _, _)
mergeRecords(st, srcs, origs, offs, comp) ==
  IF comp >= Len(origs) THEN st
  ELSE LET origin == origs[comp + 1]
           noted == [st EXCEPT !.offsets[comp + 1] = Len(st.data)]
       IN IF origin >= Len(srcs)
          THEN mergeRecords([noted EXCEPT !.data = Append(@, 0)],
                            srcs, origs, offs, comp + 1)
          ELSE LET start == st.limits[origin + 1]
                   limit == RecordArrayLimit(srcs[origin + 1], Sub(comp, offs[origin + 1]))
               IN mergeRecords(
                    [noted EXCEPT !.data = @ \o SubSeq(srcs[origin + 1].data, start + 1, limit),
                                  !.limits[origin + 1] = limit],
                    srcs, origs, offs, comp + 1)

\* A plausible slip: the merged endmarker is left as it was concatenated.
mergedEndmarkerNoRecode(srcs) ==
  mergeEndmarkers([merged |-> EmptyRecord, limits |-> [k \in 1..Len(srcs) |-> 0]],
                  srcs, 1).merged

\* The merged endmarker of the merge constructor, after recode().
mergedEndmarker(srcs) ==
  recode(mergeEndmarkers([merged |-> EmptyRecord, limits |-> [k \in 1..Len(srcs) |-> 0]],
                         srcs, 1).merged)

\* RecordArray::RecordArray(sources, origins, record_offsets)
RecordArrayMerge(srcs, origs, offs) ==
  LET ends == mergeEndmarkers([merged |-> EmptyRecord,
                               limits |-> [k \in 1..Len(srcs) |-> 0]], srcs, 1)
      st == mergeRecords([data |-> writeBWT(<<>>, recode(ends.merged)),
                          offsets |-> [k \in 1..Len(origs) |-> 0],
                          limits |-> ends.limits],
                         srcs, origs, offs, 1)
  IN [records |-> Len(origs), index |-> buildIndex(st.data, st.offsets),
      data |-> st.data]

(***************************************************************************)
(* DASamples: [sampled_records, bwt_ranges, sampled_offsets, array].       *)
(* A record that carries samples has the field ids, a sequence of          *)
(* (offset, sequence id) with increasing offsets.                          *)
(***************************************************************************)
invalid_sequence == Mod - 1

invalid_sample == <<invalid_offset, invalid_sequence>>

\* DynamicRecord::samples
samplesOf(r) == Len(r.ids)

\* DASamples::records / size / isSampled / start
DASamplesRecords(d) == Len(d.sampled_records)

DASamplesSize(d) == Len(d.array)

isSampled(d, rec) == d.sampled_records[rec + 1] = 1

DASamplesStart(d, rec) == Select1(d.bwt_ranges, Rank1(d.sampled_records, rec) + 1)

\* DASamples::limit
DASamplesLimit(d, rank) ==
  LET rank_limit == Rank1(d.sampled_records, Len(d.sampled_records))
  IN IF rank + 1 < rank_limit THEN Select1(d.bwt_ranges, rank + 2) ELSE Len(d.bwt_ranges)

\* DASamples(bwt), first loop: [record_count, bwt_offsets, sample_count,
\* sampled_records] after the records from i (from 1) on.
RECURSIVE markSampled(_, _, _)
markSampled(st, records, i) ==
  IF i > Len(records) THEN st
  ELSE IF samplesOf(records[i]) > 0
       THEN markSampled([record_count |-> st.record_count + 1,
                         bwt_offsets |-> Add(st.bwt_offsets, size(records[i])),
                         sample_count |-> st.sample_count + samplesOf(records[i]),
                         sampled_records |-> [st.sampled_records EXCEPT ![i] = 1]],
                        records, i + 1)
       ELSE markSampled(st, records, i + 1)

\* A plausible slip: the offsets of the samples are set without the start
\* of their record.
RECURSIVE setOffsetsLocal(_, _, _)
setOffsetsLocal(st, records, i) ==
  IF i > Len(records) THEN st
  ELSE IF samplesOf(records[i]) > 0
       THEN setOffsetsLocal(
              [offset |-> Add(st.offset, size(records[i])),
               ranges |-> st.ranges \cup {st.offset},
               offsets |-> st.offsets
                           \cup {records[i].ids[k][1] : k \in 1..Len(records[i].ids)}],
              records, i + 1)
       ELSE setOffsetsLocal(st, records, i + 1)

\* DASamples(bwt), second loop: [offset, ranges, offsets], the positions set
\* in range_builder and offset_builder.
RECURSIVE setOffsets(_, _, _)
setOffsets(st, records, i) ==
  IF i > Len(records) THEN st
  ELSE IF samplesOf(records[i]) > 0
       THEN setOffsets(
              [offset |-> Add(st.offset, size(records[i])),
               ranges |-> st.ranges \cup {st.offset},
               offsets |-> st.offsets
                           \cup {Add(st.offset, records[i].ids[k][1])
                                   : k \in 1..Len(records[i].ids)}],
              records, i + 1)
       ELSE setOffsets(st, records, i + 1)

\* DASamples(bwt), third loop: the sequence ids of the samples, in order.
RECURSIVE storeSamples(_, _)
storeSamples(records, i) ==
  IF i > Len(records) THEN <<>>
  ELSE (IF samplesOf(records[i]) > 0
        THEN [k \in 1..Len(records[i].ids) |-> records[i].ids[k][2]]
        ELSE <<>>)
       \o storeSamples(records, i + 1)

\* DASamples::DASamples(const std::vector<DynamicRecord>&)
DASamplesFromBWT(records) ==
  LET marked == markSampled([record_count |-> 0, bwt_offsets |-> 0, sample_count |-> 0,
                             sampled_records |-> [i \in 1..Len(records) |-> 0]],
                            records, 1)
      built == setOffsets([offset |-> 0, ranges |-> {}, offsets |-> {}], records, 1)
  IN [sampled_records |-> marked.sampled_records,
      bwt_ranges |-> BitVector(marked.bwt_offsets, built.ranges),
      sampled_offsets |-> BitVector(marked.bwt_offsets, built.offsets),
      array |-> storeSamples(records, 1)]

\* DASamples::tryLocate
tryLocate(d, rec, off) ==
  IF ~isSampled(d, rec) THEN invalid_sequence
  ELSE LET record_start == DASamplesStart(d, rec)
       IN IF d.sampled_offsets[Add(record_start, off) + 1] = 1
          THEN d.array[Rank1(d.sampled_offsets, Add(record_start, off)) + 1]
          ELSE invalid_sequence

\* A plausible slip: the sample after the one asked for is returned.
nextSampleSkipsOne(d, rec, off) ==
  IF ~isSampled(d, rec) THEN invalid_sample
  ELSE LET record_start == DASamplesStart(d, rec)
           rank == Rank1(d.sampled_offsets, Add(record_start, off)) + 1
       IN IF rank < Len(d.array)
          THEN <<Sub(Select1(d.sampled_offsets, rank + 1), record_start), d.array[rank + 1]>>
          ELSE invalid_sample

\* DASamples::nextSample
nextSample(d, rec, off) ==
  IF ~isSampled(d, rec) THEN invalid_sample
  ELSE LET record_start == DASamplesStart(d, rec)
           rank == Rank1(d.sampled_offsets, Add(record_start, off))
       IN IF rank < Len(d.array)
          THEN <<Sub(Select1(d.sampled_offsets, rank + 1), record_start), d.array[rank + 1]>>
          ELSE invalid_sample

(***************************************************************************)
(* Merging DASamples.  A SampleIterator is the number of samples it has    *)
(* passed; a SampleRangeIterator is the number of sampled records it has   *)
(* passed.                                                                 *)
(***************************************************************************)
\* SampleIterator: end(), offset() and operator*.
SampleEnd(d, pos) == pos >= DASamplesSize(d)

SampleOffset(d, pos) == Select1(d.sampled_offsets, pos + 1)

SampleValue(d, pos) == d.array[pos + 1]

\* SampleRangeIterator: start(), limit() and length() of the range it is
\* at; past the last sampled record it keeps the range it had.
SampledCount(d) == Rank1(d.sampled_records, Len(d.sampled_records))

SampleRangeAt(d, rank) ==
  LET at == IF rank < SampledCount(d) THEN rank ELSE SampledCount(d) - 1
  IN IF SampledCount(d) = 0 THEN <<0, 0>>
     ELSE <<(IF at = 0 THEN 0 ELSE DASamplesLimit(d, at - 1)), DASamplesLimit(d, at)>>

SampleRangeStart(d, rank) == SampleRangeAt(d, rank)[1]

SampleRangeLimit(d, rank) == SampleRangeAt(d, rank)[2]

SampleRangeLength(d, rank) == Sub(SampleRangeLimit(d, rank), SampleRangeStart(d, rank))

\* sequence_offsets[i] and total_sequences of the merge constructor.
RECURSIVE SumCounts(_, _)
SumCounts(counts, n) == IF n = 0 THEN 0 ELSE Add(SumCounts(counts, n - 1), counts[n])

sequenceOffsets(counts) == [i \in 1..Len(counts) |-> SumCounts(counts, i - 1)]

totalSequences(counts) == SumCounts(counts, Len(counts))

\* The sources whose endmarker is sampled.
EndmarkerSampled(srcs) == {k \in 1..Len(srcs) : isSampled(srcs[k], ENDMARKER)}

\* The range iterators after the endmarker of each source that samples it
\* was passed.
rangesPastEndmarker(srcs) ==
  [k \in 1..Len(srcs) |-> IF k \in EndmarkerSampled(srcs) THEN 1 ELSE 0]

\* The merge constructor, marking the sampled records: destination record i
\* on; st = [record_count, bwt_offsets, sampled_records, range].
RECURSIVE markMerged(_, _, _, _, _)
markMerged(st, srcs, origs, offs, i) ==
  IF i >= Len(origs) THEN st
  ELSE LET origin == origs[i + 1]
       IN IF origin >= Len(srcs) THEN markMerged(st, srcs, origs, offs, i + 1)
          ELSE IF isSampled(srcs[origin + 1], Sub(i, offs[origin + 1]))
               THEN markMerged(
                      [record_count |-> st.record_count + 1,
                       bwt_offsets |-> Add(st.bwt_offsets,
                                           SampleRangeLength(srcs[origin + 1], st.range[origin + 1])),
                       sampled_records |-> [st.sampled_records EXCEPT ![i + 1] = 1],
                       range |-> [st.range EXCEPT ![origin + 1] = @ + 1]],
                      srcs, origs, offs, i + 1)
               ELSE markMerged(st, srcs, origs, offs, i + 1)

\* The inner loop of the merge constructor: the samples of source origin
\* before the limit of its current range are set at (offset - from + to)
\* and stored with their ids shifted; st = [ranges, offsets, array, curr,
\* record_start, sample, range].
RECURSIVE copySamples(_, _, _, _, _, _)
copySamples(st, d, origin, from, to, shift) ==
  IF ~SampleEnd(d, st.sample[origin + 1])
     /\ SampleOffset(d, st.sample[origin + 1]) < SampleRangeLimit(d, st.range[origin + 1])
  THEN copySamples(
         [st EXCEPT !.offsets = @ \cup {Add(Sub(SampleOffset(d, st.sample[origin + 1]), from), to)},
                    !.array[st.curr + 1] = Add(SampleValue(d, st.sample[origin + 1]), shift),
                    !.curr = @ + 1,
                    !.sample[origin + 1] = @ + 1],
         d, origin, from, to, shift)
  ELSE st

\* The merge constructor, the endmarker: source origin (from 0) on.
RECURSIVE copyEndmarkers(_, _, _, _)
copyEndmarkers(st, srcs, counts, origin) ==
  IF origin >= Len(srcs) THEN st
  ELSE IF ~isSampled(srcs[origin + 1], ENDMARKER)
       THEN copyEndmarkers(st, srcs, counts, origin + 1)
       ELSE LET copied == copySamples(st, srcs[origin + 1], origin, 0,
                                      sequenceOffsets(counts)[origin + 1],
                                      sequenceOffsets(counts)[origin + 1])
            IN copyEndmarkers([copied EXCEPT !.range[origin + 1] = @ + 1],
                              srcs, counts, origin + 1)

\* A plausible slip: the sequence ids of the other records are not shifted.
RECURSIVE copyRecordsNoShift(_, _, _, _, _, _)
copyRecordsNoShift(st, marked, srcs, origs, counts, i) ==
  IF i >= Len(origs) THEN st
  ELSE IF marked[i + 1] # 1 THEN copyRecordsNoShift(st, marked, srcs, origs, counts, i + 1)
  ELSE LET origin == origs[i + 1]
           d == srcs[origin + 1]
           ranged == [st EXCEPT !.ranges = @ \cup {st.record_start}]
           copied == copySamples(ranged, d, origin, SampleRangeStart(d, st.range[origin + 1]),
                                 st.record_start, 0)
       IN copyRecordsNoShift(
            [copied EXCEPT !.record_start = Add(@, SampleRangeLength(d, st.range[origin + 1])),
                           !.range[origin + 1] = @ + 1],
            marked, srcs, origs, counts, i + 1)

\* The merge constructor, the other records: destination record i on.
RECURSIVE copyRecords(_, _, _, _, _, _)
copyRecords(st, marked, srcs, origs, counts, i) ==
  IF i >= Len(origs) THEN st
  ELSE IF marked[i + 1] # 1 THEN copyRecords(st, marked, srcs, origs, counts, i + 1)
  ELSE LET origin == origs[i + 1]
           d == srcs[origin + 1]
           ranged == [st EXCEPT !.ranges = @ \cup {st.record_start}]
           copied == copySamples(ranged, d, origin, SampleRangeStart(d, st.range[origin + 1]),
                                 st.record_start, sequenceOffsets(counts)[origin + 1])
       IN copyRecords(
            [copied EXCEPT !.record_start = Add(@, SampleRangeLength(d, st.range[origin + 1])),
                           !.range[origin + 1] = @ + 1],
            marked, srcs, origs, counts, i + 1)

\* DASamples::DASamples(sources, origins, record_offsets, sequence_counts)
DASamplesMerge(srcs, origs, offs, counts) ==
  LET sample_count == SumCounts([k \in 1..Len(srcs) |-> DASamplesSize(srcs[k])], Len(srcs))
      sample_endmarker == EndmarkerSampled(srcs) # {}
      marked ==
        markMerged([record_count |-> IF sample_endmarker THEN 1 ELSE 0,
                    bwt_offsets |-> IF sample_endmarker THEN totalSequences(counts) ELSE 0,
                    sampled_records |-> [i \in 1..Len(origs) |->
                                           IF i = 1 /\ sample_endmarker THEN 1 ELSE 0],
                    range |-> rangesPastEndmarker(srcs)],
                   srcs, origs, offs, 1)
      start == [ranges |-> {}, offsets |-> {}, array |-> [k \in 1..sample_count |-> 0],
                curr |-> 0, record_start |-> 0,
                sample |-> [k \in 1..Len(srcs) |-> 0], range |-> [k \in 1..Len(srcs) |-> 0]]
      ends == IF sample_endmarker
              THEN [copyEndmarkers([start EXCEPT !.ranges = {0}], srcs, counts, 0)
                      EXCEPT !.record_start = totalSequences(counts)]
              ELSE start
      built == copyRecords(ends, marked.sampled_records, srcs, origs, counts, 1)
  IN [sampled_records |-> marked.sampled_records,
      bwt_ranges |-> BitVector(marked.bwt_offsets, built.ranges),
      sampled_offsets |-> BitVector(marked.bwt_offsets, built.offsets),
      array |-> built.array]

(***************************************************************************)
(* Editing a record: recode() and removeUnusedEdges().                     *)
(***************************************************************************)
\* Outgoing lists with unique successors in any order.
AnyOrderOutgoing ==
  UNION {{Zip(t, offs, k) :
            t \in {u \in [1..k -> NodeSet] : Injective(u)},
            offs \in OffsetSchemes}
         : k \in 0..MaxOutdegree}

EditRecords ==
  {r \in {MakeRecord(out, body) : out \in AnyOrderOutgoing, body \in Bodies(MaxOutdegree)}
     : ValidRecord(r)}

InitEdit ==
  /\ record \in EditRecords
  /\ original = record
  /\ call = NoCall
  /\ ret = <<0, 0>>
  /\ val = 0
  /\ reverse_offset = 0
  /\ decompressed = [outgoing |-> <<>>, after |-> <<>>, body |-> <<>>]
  /\ data = <<>>
  /\ compressed = [outgoing |-> <<>>, body |-> 0, data_size |-> 0]
  /\ ArrayIdle
  /\ SamplesIdle
  /\ ObjectsIdle
  /\ LaterIdle

\* r.recode(), a first and a second time; call.i counts the applications.
Recode ==
  /\ \/ call.op = "init"
     \/ call.op = "recode" /\ call.i < 2
  /\ call' = [NoCall EXCEPT !.op = "recode", !.i = call.i + 1]
  /\ record' = recode(record)
  /\ UNCHANGED <<original, objectVars, laterVars, ret, val, reverse_offset, decompressed, data, compressed>>
  /\ UNCHANGED <<arrayVars, sampleVars>>

\* r.removeUnusedEdges(), a first and a second time. The second call is made
\* while every rank of the body is below the outdegree: past that the first
\* loop indexes used[] and outgoing out of bounds.
RemoveUnusedEdges ==
  /\ \/ call.op = "init"
     \/ call.op = "removeUnusedEdges" /\ call.i < 2 /\ ValidRecord(record)
  /\ call' = [NoCall EXCEPT !.op = "removeUnusedEdges", !.i = call.i + 1]
  /\ record' = removeUnusedEdges(record)
  /\ UNCHANGED <<original, objectVars, laterVars, ret, val, reverse_offset, decompressed, data, compressed>>
  /\ UNCHANGED <<arrayVars, sampleVars>>

NextEdit ==
  \/ Recode
  \/ RemoveUnusedEdges

SpecEdit == InitEdit /\ [][NextEdit]_vars

(***************************************************************************)
(* Building a RecordArray from records and reading a record back.          *)
(***************************************************************************)
\* The longest vector of records an array is built from.
MaxRecords == 3

\* A record whose encoding needs two bytes for a node, an offset and a run.
WideRecord == MakeRecord(<<<<5, 130>>, <<300, 0>>>>, <<<<1, 200>>, <<0, 1>>>>)

ArrayRecords == {EmptyRecord, Scenario1, Scenario2, WideRecord}

\* The sequences over S of length at most n.
RECURSIVE SeqsUpTo(_, _)
SeqsUpTo(S, n) ==
  IF n = 0 THEN {<<>>}
  ELSE SeqsUpTo(S, n - 1)
       \cup {Append(q, x) : q \in {t \in SeqsUpTo(S, n - 1) : Len(t) = n - 1}, x \in S}

\* The query variables while no record is held.
QueryIdle ==
  /\ record = EmptyRecord
  /\ call = NoCall
  /\ ret = <<0, 0>>
  /\ val = 0
  /\ reverse_offset = 0
  /\ decompressed = [outgoing |-> <<>>, after |-> <<>>, body |-> <<>>]
  /\ data = <<>>
  /\ compressed = [outgoing |-> <<>>, body |-> 0, data_size |-> 0]

InitArray ==
  /\ QueryIdle
  /\ EditIdle
  /\ SamplesIdle
  /\ ObjectsIdle
  /\ LaterIdle
  /\ bwt \in SeqsUpTo(ArrayRecords, MaxRecords)
  /\ array = EmptyArray
  /\ sources = <<>>
  /\ origins = <<>>
  /\ record_offsets = <<>>
  /\ merged = EmptyRecord

\* RecordArray array(bwt)
BuildRecordArray ==
  /\ call.op = "init"
  /\ call' = [NoCall EXCEPT !.op = "RecordArray"]
  /\ array' = RecordArrayFromBWT(bwt)
  /\ UNCHANGED <<record, ret, val, reverse_offset, decompressed, data, compressed>>
  /\ UNCHANGED <<original, objectVars, laterVars, bwt, sources, origins, record_offsets, merged>>
  /\ UNCHANGED sampleVars

\* CompressedRecord(array.data, array.start(k), array.limit(k)) for a
\* record k of the array.
AccessRecord ==
  /\ call.op \in {"RecordArray", "merge"}
  /\ \E k \in 0..(RecordArraySize(array) - 1) :
       /\ call' = [call EXCEPT !.op = "record", !.i = k]
       /\ compressed' = CompressedRecordOf(array.data, RecordArrayStart(array, k),
                                           RecordArrayLimit(array, k))
  /\ UNCHANGED <<record, ret, val, reverse_offset, decompressed, data>>
  /\ UNCHANGED otherVars

NextArray ==
  \/ BuildRecordArray
  \/ AccessRecord

SpecArray == InitArray /\ [][NextArray]_vars

(***************************************************************************)
(* Merging RecordArrays.                                                   *)
(***************************************************************************)
\* Endmarker records of the sources: those of the literal scenario, and one
\* whose successors are larger than those of the others.
Endmarker1 == MakeRecord(<<<<1, 0>>>>, <<<<0, 3>>>>)

Endmarker2 == MakeRecord(<<<<2, 0>>>>, <<<<0, 2>>>>)

Endmarker3 == MakeRecord(<<<<4, 0>>, <<6, 1>>>>, <<<<0, 1>>, <<1, 2>>, <<0, 1>>>>)

\* The record vectors the sources are built from.
SourceVectors ==
  {<<>>,
   <<Endmarker1>>,
   <<Endmarker2, Scenario1>>,
   <<Endmarker1, Scenario1, Scenario2>>,
   <<Endmarker2, EmptyRecord, WideRecord>>,
   <<Endmarker3, WideRecord, Scenario1, EmptyRecord>>}

SourceArrays == {RecordArrayFromBWT(v) : v \in SourceVectors}

\* Base record indexes of the sources after the first.
MergeOffsets == {0, 1, 3}

\* The number of records of the destination: past the last record of every
\* source.
RECURSIVE DestinationSize(_, _, _)
DestinationSize(srcs, offs, k) ==
  IF k = 0 THEN 1
  ELSE LET rest == DestinationSize(srcs, offs, k - 1)
           here == IF RecordArrayEmpty(srcs[k]) THEN 0
                   ELSE offs[k] + RecordArraySize(srcs[k])
       IN IF here > rest THEN here ELSE rest

\* origins names, for each destination record j >= 1, a source that has a
\* record j - record_offsets[source] >= 1, or no source.
ValidOrigins(srcs, origs, offs) ==
  \A j \in 1..(Len(origs) - 1) :
    origs[j + 1] < Len(srcs) =>
      /\ j > offs[origs[j + 1] + 1]
      /\ j - offs[origs[j + 1] + 1] < RecordArraySize(srcs[origs[j + 1] + 1])

\* The sources with their base record indexes: one source, or two.
SourcesAndOffsets ==
  {<<(<<a>>), (<<0>>)>> : a \in SourceArrays}
  \cup {<<(<<a, b>>), (<<0, o>>)>> : a \in SourceArrays, b \in SourceArrays, o \in MergeOffsets}

MergeInputs ==
  {in \in UNION {[sources : {so[1]}, record_offsets : {so[2]},
                  origins : [1..DestinationSize(so[1], so[2], Len(so[1])) -> 0..Len(so[1])]]
                 : so \in SourcesAndOffsets}
     : /\ in.origins[1] = 0
       /\ ValidOrigins(in.sources, in.origins, in.record_offsets)}

InitMerge ==
  /\ QueryIdle
  /\ EditIdle
  /\ SamplesIdle
  /\ ObjectsIdle
  /\ LaterIdle
  /\ bwt = <<>>
  /\ array = EmptyArray
  /\ merged = EmptyRecord
  /\ \E in \in MergeInputs :
       /\ sources = in.sources
       /\ origins = in.origins
       /\ record_offsets = in.record_offsets

\* RecordArray array(sources, origins, record_offsets); merged keeps the
\* constructor's merged endmarker record.
MergeRecordArrays ==
  /\ call.op = "init"
  /\ call' = [NoCall EXCEPT !.op = "merge"]
  /\ array' = RecordArrayMerge(sources, origins, record_offsets)
  /\ merged' = mergedEndmarker(sources)
  /\ UNCHANGED <<record, ret, val, reverse_offset, decompressed, data, compressed>>
  /\ UNCHANGED <<original, objectVars, laterVars, bwt, sources, origins, record_offsets>>
  /\ UNCHANGED sampleVars

NextMerge ==
  \/ MergeRecordArrays
  \/ AccessRecord

SpecMerge == InitMerge /\ [][NextMerge]_vars

(***************************************************************************)
(* Building DASamples from records and asking for samples.                 *)
(***************************************************************************)
WithSamples(r, ids) ==
  [outgoing |-> r.outgoing, body |-> r.body, body_size |-> r.body_size, ids |-> ids]

\* The record of the literal scenario: size 10, samples (2, 7) and (5, 99).
Scenario6 == WithSamples(MakeRecord(<<<<4, 0>>>>, <<<<0, 10>>>>), <<<<2, 7>>, <<5, 99>>>>)

\* Records without samples (one empty, one not), and records with a sample
\* at their first position, at their last position, and in between.
SampleRecords ==
  {WithSamples(EmptyRecord, <<>>),
   WithSamples(Scenario1, <<>>),
   WithSamples(Scenario1, <<<<0, 1>>>>),
   WithSamples(Scenario1, <<<<4, 3>>>>),
   WithSamples(Scenario2, <<<<1, 20>>, <<2, 21>>, <<5, 22>>>>),
   Scenario6}

\* Offsets asked about: inside the record and up to this far past its end.
MaxPast == 2

InitSamples ==
  /\ QueryIdle
  /\ EditIdle
  /\ bwt \in SeqsUpTo(SampleRecords, MaxRecords)
  /\ array = EmptyArray
  /\ sources = <<>>
  /\ origins = <<>>
  /\ record_offsets = <<>>
  /\ merged = EmptyRecord
  /\ SamplesIdle
  /\ ObjectsIdle
  /\ LaterIdle

\* DASamples samples(bwt)
BuildSamples ==
  /\ call.op = "init"
  /\ call' = [NoCall EXCEPT !.op = "DASamples"]
  /\ samples' = DASamplesFromBWT(bwt)
  /\ UNCHANGED <<record, ret, val, reverse_offset, decompressed, data, compressed>>
  /\ UNCHANGED <<original, objectVars, laterVars, arrayVars, position, sample_sources, sequence_counts>>

\* The size of the record of the samples that holds position (rec, 0): the
\* distance to the start of the next sampled record.
SampledSize(d, rec) ==
  DASamplesLimit(d, Rank1(d.sampled_records, rec)) - DASamplesStart(d, rec)

\* The offsets a query reads at: for a sampled record, those for which
\* start(rec) + off is inside sampled_offsets (upto = 0) or at its end
\* (upto = 1); past that the bit vector is read out of bounds.
QueryOffsets(d, rec, upto) ==
  IF isSampled(d, rec)
  THEN {off \in 0..(SampledSize(d, rec) + MaxPast) :
          DASamplesStart(d, rec) + off < Len(d.sampled_offsets) + upto}
  ELSE 0..MaxPast

\* samples.tryLocate(rec, off)
CallTryLocate ==
  /\ call.op \in {"DASamples", "DASamplesMerge"}
  /\ \E rec \in 0..(DASamplesRecords(samples) - 1) :
       \E off \in QueryOffsets(samples, rec, 0) :
         /\ position' = [record |-> rec, offset |-> off]
         /\ val' = tryLocate(samples, rec, off)
  /\ call' = [call EXCEPT !.op = "tryLocate"]
  /\ UNCHANGED <<record, ret, reverse_offset, decompressed, data, compressed>>
  /\ UNCHANGED <<original, objectVars, laterVars, arrayVars, samples, sample_sources, sequence_counts>>

\* samples.nextSample(rec, off)
CallNextSample ==
  /\ call.op \in {"DASamples", "DASamplesMerge"}
  /\ \E rec \in 0..(DASamplesRecords(samples) - 1) :
       \E off \in QueryOffsets(samples, rec, 1) :
         /\ position' = [record |-> rec, offset |-> off]
         /\ ret' = nextSample(samples, rec, off)
  /\ call' = [call EXCEPT !.op = "nextSample"]
  /\ UNCHANGED <<record, val, reverse_offset, decompressed, data, compressed>>
  /\ UNCHANGED <<original, objectVars, laterVars, arrayVars, samples, sample_sources, sequence_counts>>

NextSamples ==
  \/ BuildSamples
  \/ CallTryLocate
  \/ CallNextSample

SpecSamples == InitSamples /\ [][NextSamples]_vars

(***************************************************************************)
(* Merging DASamples.                                                      *)
(***************************************************************************)
\* An endmarker record of n sequences.
EndmarkerOf(n) == MakeRecord(<<<<2, 0>>>>, <<<<0, n>>>>)

\* The record vectors the sources are built from: with and without a
\* sampled endmarker, with records that carry no sample, and with none at
\* all.  Sequence ids are below the size of the endmarker.
SampleSourceVectors ==
  {<<WithSamples(EndmarkerOf(2), <<<<0, 0>>, <<1, 1>>>>),
     WithSamples(Scenario1, <<<<4, 1>>>>)>>,
   <<WithSamples(EndmarkerOf(3), <<>>),
     WithSamples(Scenario1, <<<<0, 2>>>>),
     WithSamples(Scenario2, <<<<1, 0>>, <<5, 1>>>>)>>,
   <<WithSamples(EndmarkerOf(1), <<<<0, 0>>>>),
     WithSamples(Scenario1, <<>>),
     WithSamples(Scenario1, <<<<0, 0>>>>)>>,
   <<WithSamples(EndmarkerOf(2), <<<<1, 1>>>>),
     WithSamples(Scenario2, <<<<1, 0>>, <<2, 1>>, <<5, 0>>>>),
     WithSamples(EmptyRecord, <<>>),
     WithSamples(Scenario1, <<<<2, 1>>>>)>>,
   <<WithSamples(EndmarkerOf(2), <<>>),
     WithSamples(Scenario1, <<>>)>>}

\* One source or two, with their base record indexes and sequence counts.
SampleSources ==
  {[sources |-> <<DASamplesFromBWT(a)>>, record_offsets |-> <<0>>,
    sequence_counts |-> <<size(a[1])>>] : a \in SampleSourceVectors}
  \cup {[sources |-> <<DASamplesFromBWT(a), DASamplesFromBWT(b)>>,
         record_offsets |-> <<0, o>>,
         sequence_counts |-> <<size(a[1]), size(b[1])>>]
          : a \in SampleSourceVectors, b \in SampleSourceVectors, o \in MergeOffsets}

RECURSIVE SampleDestinationSize(_, _, _)
SampleDestinationSize(srcs, offs, k) ==
  IF k = 0 THEN 1
  ELSE LET rest == SampleDestinationSize(srcs, offs, k - 1)
           here == offs[k] + DASamplesRecords(srcs[k])
       IN IF here > rest THEN here ELSE rest

ValidSampleOrigins(srcs, origs, offs) ==
  \A j \in 1..(Len(origs) - 1) :
    origs[j + 1] < Len(srcs) =>
      /\ j > offs[origs[j + 1] + 1]
      /\ j - offs[origs[j + 1] + 1] < DASamplesRecords(srcs[origs[j + 1] + 1])

\* The builders of the merge constructor are sized by the samples of all the
\* sources (sample_count), and the constructor fills them: every sampled
\* record of every source is a record of the destination.
EverySampleMapped(srcs, origs, offs) ==
  \A k \in 1..Len(srcs) :
    \A local \in 1..(DASamplesRecords(srcs[k]) - 1) :
      isSampled(srcs[k], local) => origs[offs[k] + local + 1] = k - 1

SampleMergeInputs ==
  {in \in UNION {[from : {so},
                  origins : [1..SampleDestinationSize(so.sources, so.record_offsets,
                                                      Len(so.sources))
                             -> 0..Len(so.sources)]]
                 : so \in SampleSources}
     : /\ in.origins[1] = 0
       /\ ValidSampleOrigins(in.from.sources, in.origins, in.from.record_offsets)
       /\ EverySampleMapped(in.from.sources, in.origins, in.from.record_offsets)}

InitSamplesMerge ==
  /\ QueryIdle
  /\ EditIdle
  /\ ObjectsIdle
  /\ LaterIdle
  /\ bwt = <<>>
  /\ array = EmptyArray
  /\ sources = <<>>
  /\ merged = EmptyRecord
  /\ samples = EmptySamples
  /\ position = NoPosition
  /\ \E in \in SampleMergeInputs :
       /\ sample_sources = in.from.sources
       /\ sequence_counts = in.from.sequence_counts
       /\ record_offsets = in.from.record_offsets
       /\ origins = in.origins

\* DASamples samples(sample_sources, origins, record_offsets, sequence_counts)
MergeSamples ==
  /\ call.op = "init"
  /\ call' = [NoCall EXCEPT !.op = "DASamplesMerge"]
  /\ samples' = DASamplesMerge(sample_sources, origins, record_offsets, sequence_counts)
  /\ UNCHANGED <<record, ret, val, reverse_offset, decompressed, data, compressed>>
  /\ UNCHANGED <<original, objectVars, laterVars, arrayVars, position, sample_sources, sequence_counts>>

NextSamplesMerge ==
  \/ MergeSamples
  \/ CallTryLocate
  \/ CallNextSample

SpecSamplesMerge == InitSamplesMerge /\ [][NextSamplesMerge]_vars

(***************************************************************************)
(* The objects and the vectors their supports refer to.  A vector is       *)
(* stood for by what it holds (0: nothing), a rank/select support by the   *)
(* address of the vector it refers to.                                     *)
(***************************************************************************)
\* What a vector built or loaded holds.
Contents == {1, 2}

\* sdsl::util::init_support(support, vector): the support is built on the
\* vector and refers to it.
init_support(vector) == vector

\* support.set_vector(vector): the support refers to the vector.
set_vector(support, vector) == vector

\* support.load(in, vector): the support is read and refers to the vector.
load_support(vector) == vector

\* sdsl::util::swap_support(s1, s2, p1, p2): the supports are swapped, then
\* the first is set to p1 and the second to p2.
swap_support(s1, s2, p1, p2) == <<set_vector(s2, p1), set_vector(s1, p2)>>

\* RecordArray::RecordArray(bwt) at address self, with buildIndex().
RecordArrayBuilt(self, c) ==
  [records |-> c, index |-> c, select |-> init_support(AddressOf(self, "index")),
   data |-> c]

\* A plausible slip: the copied support is left as it was copied.
RecordArrayCopyNoRebind(self, source) ==
  [records |-> source.records, index |-> source.index, select |-> source.select,
   data |-> source.data]

\* RecordArray::copy(source) in the object at address self.
RecordArrayCopy(self, source) ==
  [records |-> source.records,
   index |-> source.index,
   select |-> set_vector(source.select, AddressOf(self, "index")),
   data |-> source.data]

\* RecordArray::operator=(RecordArray&& source), the object assigned to.
RecordArrayMove(self, source) ==
  [records |-> source.records,
   index |-> source.index,
   select |-> set_vector(source.select, AddressOf(self, "index")),
   data |-> source.data]

\* RecordArray::operator=(RecordArray&& source), the source afterwards.
RecordArrayMovedFrom(source, left) ==
  [source EXCEPT !.index = IF left THEN @ ELSE 0, !.data = IF left THEN @ ELSE 0]

\* RecordArray::swap(another): the pair (this, another) afterwards.
RecordArraySwap(self, other, this, another) ==
  LET supports == swap_support(this.select, another.select,
                               AddressOf(self, "index"), AddressOf(other, "index"))
  IN <<[records |-> another.records, index |-> another.index,
        select |-> supports[1], data |-> another.data],
       [records |-> this.records, index |-> this.index,
        select |-> supports[2], data |-> this.data]>>

\* RecordArray::load(in) at address self.
RecordArrayLoad(self, c) ==
  [records |-> c, index |-> c, select |-> load_support(AddressOf(self, "index")),
   data |-> c]

\* DASamples::setVectors() in the object at address self.
setVectors(self, d) ==
  [d EXCEPT !.record_rank = set_vector(@, AddressOf(self, "sampled_records")),
            !.bwt_select = set_vector(@, AddressOf(self, "bwt_ranges")),
            !.sample_rank = set_vector(@, AddressOf(self, "sampled_offsets"))]

\* DASamples::DASamples(bwt) at address self.
DASamplesBuilt(self, c) ==
  [sampled_records |-> c,
   record_rank |-> init_support(AddressOf(self, "sampled_records")),
   bwt_ranges |-> c,
   bwt_select |-> init_support(AddressOf(self, "bwt_ranges")),
   sampled_offsets |-> c,
   sample_rank |-> init_support(AddressOf(self, "sampled_offsets")),
   array |-> c]

\* DASamples::copy(source) in the object at address self.
DASamplesCopy(self, source) ==
  setVectors(self,
    [sampled_records |-> source.sampled_records, record_rank |-> source.record_rank,
     bwt_ranges |-> source.bwt_ranges, bwt_select |-> source.bwt_select,
     sampled_offsets |-> source.sampled_offsets, sample_rank |-> source.sample_rank,
     array |-> source.array])

\* DASamples::operator=(DASamples&& source), the object assigned to.
DASamplesMove(self, source) ==
  setVectors(self,
    [sampled_records |-> source.sampled_records, record_rank |-> source.record_rank,
     bwt_ranges |-> source.bwt_ranges, bwt_select |-> source.bwt_select,
     sampled_offsets |-> source.sampled_offsets, sample_rank |-> source.sample_rank,
     array |-> source.array])

\* DASamples::operator=(DASamples&& source), the source afterwards.
DASamplesMovedFrom(source, left) ==
  [source EXCEPT !.sampled_records = IF left THEN @ ELSE 0,
                 !.bwt_ranges = IF left THEN @ ELSE 0,
                 !.sampled_offsets = IF left THEN @ ELSE 0,
                 !.array = IF left THEN @ ELSE 0]

\* DASamples::swap(another): the pair (this, another) afterwards.
DASamplesSwap(self, other, this, another) ==
  LET ranks == swap_support(this.record_rank, another.record_rank,
                            AddressOf(self, "sampled_records"),
                            AddressOf(other, "sampled_records"))
      selects == swap_support(this.bwt_select, another.bwt_select,
                              AddressOf(self, "bwt_ranges"),
                              AddressOf(other, "bwt_ranges"))
      samples_ranks == swap_support(this.sample_rank, another.sample_rank,
                                    AddressOf(self, "sampled_offsets"),
                                    AddressOf(other, "sampled_offsets"))
  IN <<[sampled_records |-> another.sampled_records, record_rank |-> ranks[1],
        bwt_ranges |-> another.bwt_ranges, bwt_select |-> selects[1],
        sampled_offsets |-> another.sampled_offsets, sample_rank |-> samples_ranks[1],
        array |-> another.array],
       [sampled_records |-> this.sampled_records, record_rank |-> ranks[2],
        bwt_ranges |-> this.bwt_ranges, bwt_select |-> selects[2],
        sampled_offsets |-> this.sampled_offsets, sample_rank |-> samples_ranks[2],
        array |-> this.array]>>

\* DASamples::load(in) at address self.
DASamplesLoad(self, c) ==
  [sampled_records |-> c,
   record_rank |-> load_support(AddressOf(self, "sampled_records")),
   bwt_ranges |-> c,
   bwt_select |-> load_support(AddressOf(self, "bwt_ranges")),
   sampled_offsets |-> c,
   sample_rank |-> load_support(AddressOf(self, "sampled_offsets")),
   array |-> c]

InitObjects ==
  /\ QueryIdle
  /\ EditIdle
  /\ ArrayIdle
  /\ SamplesIdle
  /\ ObjectsIdle
  /\ LaterIdle

\* What every step on the objects leaves alone.
ObjectsFrame ==
  UNCHANGED <<record, ret, val, reverse_offset, decompressed, data, compressed,
              original, arrayVars, sampleVars, laterVars>>

\* RecordArray array(bwt) at address self.
ConstructRecordArray ==
  \E self \in Objects, c \in Contents :
    /\ arrayObjects' = [arrayObjects EXCEPT ![self] = RecordArrayBuilt(self, c)]
    /\ call' = [NoCall EXCEPT !.op = "RecordArray(bwt)"]
    /\ UNCHANGED sampleObjects
    /\ ObjectsFrame

\* RecordArray array(source) at address self.
CopyConstructRecordArray ==
  \E self \in Objects, source \in Objects :
    /\ self # source
    /\ arrayObjects' = [arrayObjects EXCEPT ![self] = RecordArrayCopy(self, arrayObjects[source])]
    /\ call' = [NoCall EXCEPT !.op = "RecordArray(const&)"]
    /\ UNCHANGED sampleObjects
    /\ ObjectsFrame

\* array = source
CopyAssignRecordArray ==
  \E self \in Objects, source \in Objects :
    /\ arrayObjects' = IF self # source
                       THEN [arrayObjects EXCEPT ![self] = RecordArrayCopy(self, arrayObjects[source])]
                       ELSE arrayObjects
    /\ call' = [NoCall EXCEPT !.op = "RecordArray=(const&)"]
    /\ UNCHANGED sampleObjects
    /\ ObjectsFrame

\* RecordArray array(std::move(source)) at address self: the move assignment
\* into the object under construction.
MoveConstructRecordArray ==
  \E self \in Objects, source \in Objects, left \in BOOLEAN :
    /\ self # source
    /\ arrayObjects' = [arrayObjects EXCEPT
                          ![self] = RecordArrayMove(self, arrayObjects[source]),
                          ![source] = RecordArrayMovedFrom(arrayObjects[source], left)]
    /\ call' = [NoCall EXCEPT !.op = "RecordArray(&&)"]
    /\ UNCHANGED sampleObjects
    /\ ObjectsFrame

\* array = std::move(source)
MoveAssignRecordArray ==
  \E self \in Objects, source \in Objects, left \in BOOLEAN :
    /\ arrayObjects' = IF self # source
                       THEN [arrayObjects EXCEPT
                               ![self] = RecordArrayMove(self, arrayObjects[source]),
                               ![source] = RecordArrayMovedFrom(arrayObjects[source], left)]
                       ELSE arrayObjects
    /\ call' = [NoCall EXCEPT !.op = "RecordArray=(&&)"]
    /\ UNCHANGED sampleObjects
    /\ ObjectsFrame

\* array.swap(another)
SwapRecordArray ==
  \E self \in Objects, other \in Objects :
    /\ arrayObjects' =
         IF self # other
         THEN LET swapped == RecordArraySwap(self, other, arrayObjects[self], arrayObjects[other])
              IN [arrayObjects EXCEPT ![self] = swapped[1], ![other] = swapped[2]]
         ELSE arrayObjects
    /\ call' = [NoCall EXCEPT !.op = "RecordArray::swap"]
    /\ UNCHANGED sampleObjects
    /\ ObjectsFrame

\* array.load(in)
LoadRecordArray ==
  \E self \in Objects, c \in Contents \cup {0} :
    /\ arrayObjects' = [arrayObjects EXCEPT ![self] = RecordArrayLoad(self, c)]
    /\ call' = [NoCall EXCEPT !.op = "RecordArray::load"]
    /\ UNCHANGED sampleObjects
    /\ ObjectsFrame

\* DASamples samples(bwt) at address self.
ConstructDASamples ==
  \E self \in Objects, c \in Contents :
    /\ sampleObjects' = [sampleObjects EXCEPT ![self] = DASamplesBuilt(self, c)]
    /\ call' = [NoCall EXCEPT !.op = "DASamples(bwt)"]
    /\ UNCHANGED arrayObjects
    /\ ObjectsFrame

\* DASamples samples(source) at address self.
CopyConstructDASamples ==
  \E self \in Objects, source \in Objects :
    /\ self # source
    /\ sampleObjects' = [sampleObjects EXCEPT ![self] = DASamplesCopy(self, sampleObjects[source])]
    /\ call' = [NoCall EXCEPT !.op = "DASamples(const&)"]
    /\ UNCHANGED arrayObjects
    /\ ObjectsFrame

\* samples = source
CopyAssignDASamples ==
  \E self \in Objects, source \in Objects :
    /\ sampleObjects' = IF self # source
                        THEN [sampleObjects EXCEPT ![self] = DASamplesCopy(self, sampleObjects[source])]
                        ELSE sampleObjects
    /\ call' = [NoCall EXCEPT !.op = "DASamples=(const&)"]
    /\ UNCHANGED arrayObjects
    /\ ObjectsFrame

\* DASamples samples(std::move(source)) at address self.
MoveConstructDASamples ==
  \E self \in Objects, source \in Objects, left \in BOOLEAN :
    /\ self # source
    /\ sampleObjects' = [sampleObjects EXCEPT
                           ![self] = DASamplesMove(self, sampleObjects[source]),
                           ![source] = DASamplesMovedFrom(sampleObjects[source], left)]
    /\ call' = [NoCall EXCEPT !.op = "DASamples(&&)"]
    /\ UNCHANGED arrayObjects
    /\ ObjectsFrame

\* samples = std::move(source)
MoveAssignDASamples ==
  \E self \in Objects, source \in Objects, left \in BOOLEAN :
    /\ sampleObjects' = IF self # source
                        THEN [sampleObjects EXCEPT
                                ![self] = DASamplesMove(self, sampleObjects[source]),
                                ![source] = DASamplesMovedFrom(sampleObjects[source], left)]
                        ELSE sampleObjects
    /\ call' = [NoCall EXCEPT !.op = "DASamples=(&&)"]
    /\ UNCHANGED arrayObjects
    /\ ObjectsFrame

\* samples.swap(another)
SwapDASamples ==
  \E self \in Objects, other \in Objects :
    /\ sampleObjects' =
         IF self # other
         THEN LET swapped == DASamplesSwap(self, other, sampleObjects[self], sampleObjects[other])
              IN [sampleObjects EXCEPT ![self] = swapped[1], ![other] = swapped[2]]
         ELSE sampleObjects
    /\ call' = [NoCall EXCEPT !.op = "DASamples::swap"]
    /\ UNCHANGED arrayObjects
    /\ ObjectsFrame

\* samples.load(in)
LoadDASamples ==
  \E self \in Objects, c \in Contents \cup {0} :
    /\ sampleObjects' = [sampleObjects EXCEPT ![self] = DASamplesLoad(self, c)]
    /\ call' = [NoCall EXCEPT !.op = "DASamples::load"]
    /\ UNCHANGED arrayObjects
    /\ ObjectsFrame

NextObjects ==
  \/ ConstructRecordArray
  \/ CopyConstructRecordArray
  \/ CopyAssignRecordArray
  \/ MoveConstructRecordArray
  \/ MoveAssignRecordArray
  \/ SwapRecordArray
  \/ LoadRecordArray
  \/ ConstructDASamples
  \/ CopyConstructDASamples
  \/ CopyAssignDASamples
  \/ MoveConstructDASamples
  \/ MoveAssignDASamples
  \/ SwapDASamples
  \/ LoadDASamples

SpecObjects == InitObjects /\ [][NextObjects]_vars

(***************************************************************************)
(* Dictionary: strings by id (offsets into data) and a permutation         *)
(* sorted_ids of the ids.  A character is a number.                        *)
(***************************************************************************)
\* stringCompare() on two ranges of characters.
RECURSIVE stringCompare(_, _)
stringCompare(a, b) ==
  IF a = <<>> \/ b = <<>> THEN a = <<>> /\ b # <<>>
  ELSE IF Head(a) # Head(b) THEN Head(a) < Head(b)
  ELSE stringCompare(Tail(a), Tail(b))

\* Dictionary::size(), empty()
DictionarySize(d) == Len(d.sorted_ids)

DictionaryEmpty(d) == DictionarySize(d) = 0

\* Every range [offsets[i], offsets[i + 1]) lies inside data: outside that
\* operator[] and smaller() read through iterators past their limit.
DictionaryWellFormed(d) ==
  /\ Len(d.offsets) = DictionarySize(d) + 1
  /\ \A i \in 1..DictionarySize(d) :
       d.offsets[i] <= d.offsets[i + 1] /\ d.offsets[i + 1] <= Len(d.data)

\* Dictionary::operator[]: the string with id i.
DictionaryString(d, i) == SubSeq(d.data, d.offsets[i + 1] + 1, d.offsets[i + 2])

\* The orders of the ids 0..n-1.
IdOrders(n) == {p \in [1..n -> 0..(n - 1)] : \A i \in 1..n, j \in 1..n : p[i] = p[j] => i = j}

\* Dictionary::smaller(a, b) for the ids at two positions of an order.
smaller(d, ids, a, b) ==
  stringCompare(DictionaryString(d, ids[a + 1]), DictionaryString(d, ids[b + 1]))

\* What sequentialSort() with smaller() can leave in sorted_ids: an order
\* with no string before a smaller one; any order when the comparison reads
\* outside a range.
sortedIds(d, n) ==
  IF DictionaryWellFormed([d EXCEPT !.sorted_ids = [i \in 1..n |-> i - 1]])
  THEN {p \in IdOrders(n) : \A k \in 0..(n - 2) : ~smaller(d, p, k + 1, k)}
  ELSE IdOrders(n)

\* The starting offsets and the characters of a vector of strings.
RECURSIVE totalLength(_, _)
totalLength(source, n) ==
  IF n = 0 THEN 0 ELSE totalLength(source, n - 1) + Len(source[n])

RECURSIVE concatenate(_, _)
concatenate(source, n) ==
  IF n = 0 THEN <<>> ELSE concatenate(source, n - 1) \o source[n]

\* Dictionary::Dictionary(source): the dictionaries it can build.
DictionaryFrom(source) ==
  IF source = <<>> THEN {DictionaryDefault}
  ELSE LET built == [offsets |-> [i \in 1..(Len(source) + 1) |-> totalLength(source, i - 1)],
                     sorted_ids |-> [i \in 1..Len(source) |-> i - 1],
                     data |-> concatenate(source, Len(source))]
       IN {[built EXCEPT !.sorted_ids = p] : p \in sortedIds(built, Len(source))}

\* Dictionary::append, the second loop over the offsets: source offset i on.
RECURSIVE appendOffsets(_, _, _, _, _)
appendOffsets(new_offsets, this, source, old_data_size, i) ==
  IF i > DictionarySize(source) THEN new_offsets
  ELSE appendOffsets([new_offsets EXCEPT ![DictionarySize(this) + 1 + 1] =
                                            old_data_size + source.offsets[i + 1]],
                     this, source, old_data_size, i + 1)

\* Dictionary::append(source): the dictionaries it can leave in this.
append(this, source) ==
  IF DictionaryEmpty(source) THEN {this}
  ELSE LET old_data_size == Len(this.data)
           old_size == DictionarySize(this)
           new_size == DictionarySize(this) + DictionarySize(source)
           kept == [i \in 1..(old_size + DictionarySize(source) + 1) |->
                      IF i <= old_size THEN this.offsets[i] ELSE 0]
           grown == [offsets |-> appendOffsets(kept, this, source, old_data_size, 0),
                     sorted_ids |-> [i \in 1..new_size |-> i - 1],
                     data |-> this.data \o source.data]
       IN {[grown EXCEPT !.sorted_ids = p] : p \in sortedIds(grown, new_size)}

\* The strings and the longest vector of strings a dictionary is built from.
Names == {<<>>, <<1>>, <<2>>, <<1, 2>>}

MaxStrings == 2

NameVectors == UNION {[1..n -> Names] : n \in 0..MaxStrings}

Dictionaries == UNION {DictionaryFrom(source) : source \in NameVectors}

InitDictionary ==
  /\ QueryIdle
  /\ EditIdle
  /\ ArrayIdle
  /\ SamplesIdle
  /\ ObjectsIdle
  /\ MetadataIdle
  /\ IncomingIdle
  /\ RunIdle
  /\ dictionary \in Dictionaries
  /\ appended \in Dictionaries
  /\ dictionary_before = dictionary

\* dictionary.append(appended)
AppendDictionary ==
  /\ call.op = "init"
  /\ call' = [NoCall EXCEPT !.op = "append"]
  /\ dictionary' \in append(dictionary, appended)
  /\ UNCHANGED <<record, ret, val, reverse_offset, decompressed, data, compressed>>
  /\ UNCHANGED <<original, arrayVars, sampleVars, objectVars, appended, dictionary_before>>
  /\ UNCHANGED <<metadataVars, incomingVars, runVars>>

NextDictionary == AppendDictionary

SpecDictionary == InitDictionary /\ [][NextDictionary]_vars

(***************************************************************************)
(* Metadata: counts, flags for the optional sections, path names and the   *)
(* dictionaries of sample and contig names.                                *)
(***************************************************************************)
\* Metadata::hasPathNames(), hasSampleNames(), hasContigNames(): the flags.
hasPathNames(m) == "FLAG_PATH_NAMES" \in m.flags

hasSampleNames(m) == "FLAG_SAMPLE_NAMES" \in m.flags

hasContigNames(m) == "FLAG_CONTIG_NAMES" \in m.flags

PathName(sample, contig) == [sample |-> sample, contig |-> contig, phase |-> 0, count |-> 0]

\* Metadata::setSamples(n), setHaplotypes(n), setContigs(n)
setSamples(m, n) == [m EXCEPT !.sample_count = n]

setHaplotypes(m, n) == [m EXCEPT !.haplotype_count = n]

setContigs(m, n) == [m EXCEPT !.contig_count = n]

\* Metadata::clearPathNames(), clearSampleNames(), clearContigNames()
clearPathNames(m) ==
  [m EXCEPT !.flags = @ \ {"FLAG_PATH_NAMES"}, !.path_names = <<>>]

clearSampleNames(m) ==
  [m EXCEPT !.flags = @ \ {"FLAG_SAMPLE_NAMES"}, !.sample_names = DictionaryDefault]

clearContigNames(m) ==
  [m EXCEPT !.flags = @ \ {"FLAG_CONTIG_NAMES"}, !.contig_names = DictionaryDefault]

\* Metadata::setSamples(names), setContigs(names) for names without
\* duplicates, which have one sorted order.
setSampleNames(m, names) ==
  IF names = <<>> THEN clearSampleNames(m)
  ELSE [setSamples(m, Len(names)) EXCEPT
          !.flags = @ \cup {"FLAG_SAMPLE_NAMES"},
          !.sample_names = CHOOSE d \in DictionaryFrom(names) : TRUE]

setContigNames(m, names) ==
  IF names = <<>> THEN clearContigNames(m)
  ELSE [setContigs(m, Len(names)) EXCEPT
          !.flags = @ \cup {"FLAG_CONTIG_NAMES"},
          !.contig_names = CHOOSE d \in DictionaryFrom(names) : TRUE]

\* Metadata::addPath(path)
addPath(m, path) ==
  [m EXCEPT !.flags = @ \cup {"FLAG_PATH_NAMES"}, !.path_names = Append(@, path)]

\* Metadata::serialize: the members written, the optional sections by flag.
serialize(m) ==
  [sample_count |-> m.sample_count,
   haplotype_count |-> m.haplotype_count,
   contig_count |-> m.contig_count,
   flags |-> m.flags,
   path_names |-> IF hasPathNames(m) THEN <<m.path_names>> ELSE <<>>,
   sample_names |-> IF hasSampleNames(m) THEN <<m.sample_names>> ELSE <<>>,
   contig_names |-> IF hasContigNames(m) THEN <<m.contig_names>> ELSE <<>>]

\* Metadata::merge, samples and haplotypes: what this can become.
mergeSamples(this, source, same_samples) ==
  IF same_samples
  THEN IF ~hasSampleNames(this) /\ hasSampleNames(source)
       THEN {[this EXCEPT !.sample_names = source.sample_names]}
       ELSE {this}
  ELSE LET added == [this EXCEPT
                       !.sample_count = Add(@, source.sample_count),
                       !.haplotype_count = Add(@, source.haplotype_count)]
       IN IF hasSampleNames(this)
          THEN IF hasSampleNames(source)
               THEN {[added EXCEPT !.sample_names = d]
                       : d \in append(this.sample_names, source.sample_names)}
               ELSE {clearSampleNames(added)}
          ELSE {added}

\* Metadata::merge, contigs.
mergeContigs(this, source, same_contigs) ==
  IF same_contigs
  THEN IF ~hasContigNames(this) /\ hasContigNames(source)
       THEN {[this EXCEPT !.contig_names = source.contig_names]}
       ELSE {this}
  ELSE LET added == [this EXCEPT !.contig_count = Add(@, source.contig_count)]
       IN IF hasContigNames(this)
          THEN IF hasContigNames(source)
               THEN {[added EXCEPT !.contig_names = d]
                       : d \in append(this.contig_names, source.contig_names)}
               ELSE {clearContigNames(added)}
          ELSE {added}

\* A plausible slip: the appended paths are shifted by the counts after the
\* merge.
mergePathsShiftedByNewCounts(this, source, source_sample_offset, source_contig_offset) ==
  IF hasPathNames(this)
  THEN IF hasPathNames(source)
       THEN [this EXCEPT !.path_names =
               @ \o [i \in 1..Len(source.path_names) |->
                       [source.path_names[i] EXCEPT
                          !.sample = Add(@, this.sample_count),
                          !.contig = Add(@, this.contig_count)]]]
       ELSE clearPathNames(this)
  ELSE this

\* Metadata::merge, paths.
mergePaths(this, source, source_sample_offset, source_contig_offset) ==
  IF hasPathNames(this)
  THEN IF hasPathNames(source)
       THEN [this EXCEPT !.path_names =
               @ \o [i \in 1..Len(source.path_names) |->
                       [source.path_names[i] EXCEPT
                          !.sample = Add(@, source_sample_offset),
                          !.contig = Add(@, source_contig_offset)]]]
       ELSE clearPathNames(this)
  ELSE this

\* Metadata::merge(source, same_samples, same_contigs): what this can become.
MetadataMerge(this, source, same_samples, same_contigs) ==
  LET source_sample_offset == IF same_samples THEN 0 ELSE this.sample_count
      source_contig_offset == IF same_contigs THEN 0 ELSE this.contig_count
  IN {mergePaths(c, source, source_sample_offset, source_contig_offset)
        : c \in UNION {mergeContigs(m, source, same_contigs)
                         : m \in mergeSamples(this, source, same_samples)}}

\* The samples and the contigs of a Metadata: a count, or names.
SampleChoices ==
  {[count |-> 1, names |-> <<>>], [count |-> 2, names |-> <<>>],
   [count |-> 0, names |-> <<<<1>>>>], [count |-> 0, names |-> <<<<2>>, <<1, 2>>>>]}

ContigChoices ==
  {[count |-> 1, names |-> <<>>], [count |-> 2, names |-> <<>>],
   [count |-> 0, names |-> <<<<1, 2>>>>]}

HaplotypeChoices == {2, 3}

\* No paths, one path, or the paths of the first and of the last sample and
\* contig.
WithPaths(m, n) ==
  IF n = 0 THEN m
  ELSE IF n = 1 THEN addPath(m, PathName(0, 0))
  ELSE addPath(addPath(m, PathName(0, 0)),
               PathName(m.sample_count - 1, m.contig_count - 1))

MetadataInputs ==
  {WithPaths(
     LET sampled == IF s.names = <<>> THEN setSamples(MetadataDefault, s.count)
                    ELSE setSampleNames(MetadataDefault, s.names)
         withHaplotypes == setHaplotypes(sampled, h)
     IN IF c.names = <<>> THEN setContigs(withHaplotypes, c.count)
        ELSE setContigNames(withHaplotypes, c.names),
     n)
   : s \in SampleChoices, h \in HaplotypeChoices, c \in ContigChoices, n \in 0..2}

InitMetadata ==
  /\ QueryIdle
  /\ EditIdle
  /\ ArrayIdle
  /\ SamplesIdle
  /\ ObjectsIdle
  /\ DictionaryIdle
  /\ IncomingIdle
  /\ RunIdle
  /\ metadata \in MetadataInputs
  /\ metadata_source \in MetadataInputs
  /\ metadata_before = metadata
  /\ same \in BOOLEAN \X BOOLEAN
  /\ serialized = <<>>

MetadataFrame ==
  /\ UNCHANGED <<record, ret, val, reverse_offset, decompressed, data, compressed>>
  /\ UNCHANGED <<original, arrayVars, sampleVars, objectVars, dictionaryVars>>
  /\ UNCHANGED <<incomingVars, runVars>>

\* metadata.merge(metadata_source, same_samples, same_contigs)
MergeMetadata ==
  /\ call.op = "init"
  /\ call' = [NoCall EXCEPT !.op = "Metadata::merge"]
  /\ metadata' \in MetadataMerge(metadata, metadata_source, same[1], same[2])
  /\ UNCHANGED <<metadata_source, metadata_before, same, serialized>>
  /\ MetadataFrame

\* metadata.serialize(out) after the merge
SerializeMetadata ==
  /\ call.op = "Metadata::merge"
  /\ call' = [NoCall EXCEPT !.op = "Metadata::serialize"]
  /\ serialized' = <<serialize(metadata)>>
  /\ UNCHANGED <<metadata, metadata_source, metadata_before, same>>
  /\ MetadataFrame

NextMetadata ==
  \/ MergeMetadata
  \/ SerializeMetadata

SpecMetadata == InitMetadata /\ [][NextMetadata]_vars

(***************************************************************************)
(* The incoming edges of a DynamicRecord: (predecessor, count) pairs.      *)
(***************************************************************************)
\* DynamicRecord::countBefore(from): the loop from inrank on.
RECURSIVE countBeforeFrom(_, _, _)
countBeforeFrom(edges, from, inrank) ==
  IF inrank < Len(edges) /\ edges[inrank + 1][1] < from
  THEN Add(edges[inrank + 1][2], countBeforeFrom(edges, from, inrank + 1))
  ELSE 0

countBefore(edges, from) == countBeforeFrom(edges, from, 0)

\* DynamicRecord::countUntil(from)
RECURSIVE countUntilFrom(_, _, _)
countUntilFrom(edges, from, inrank) ==
  IF inrank < Len(edges) /\ edges[inrank + 1][1] <= from
  THEN Add(edges[inrank + 1][2], countUntilFrom(edges, from, inrank + 1))
  ELSE 0

countUntil(edges, from) == countUntilFrom(edges, from, 0)

\* A plausible slip: the new edge is appended and the list not sorted.
addIncomingUnsorted(edges, inedge) == Append(edges, inedge)

\* DynamicRecord::addIncoming(inedge)
addIncoming(edges, inedge) == sequentialSort(Append(edges, inedge))

\* DynamicRecord::increment(from): the loop from inrank on.
RECURSIVE incrementFrom(_, _, _)
incrementFrom(edges, from, inrank) ==
  IF inrank >= Len(edges) THEN addIncoming(edges, <<from, 1>>)
  ELSE IF edges[inrank + 1][1] = from
       THEN [edges EXCEPT ![inrank + 1] = <<@[1], Add(@[2], 1)>>]
       ELSE incrementFrom(edges, from, inrank + 1)

increment(edges, from) == incrementFrom(edges, from, 0)

\* The most increment() calls made on a record.
MaxIncrements == 4

RECURSIVE SumOver(_, _)
SumOver(f, S) ==
  IF S = {} THEN 0
  ELSE LET v == CHOOSE x \in S : TRUE IN f[v] + SumOver(f, S \ {v})

TotalIncrements == SumOver(increments, CountNodes)

InitIncoming ==
  /\ QueryIdle
  /\ EditIdle
  /\ ArrayIdle
  /\ SamplesIdle
  /\ ObjectsIdle
  /\ DictionaryIdle
  /\ MetadataIdle
  /\ IncomingIdle
  /\ RunIdle

IncomingFrame ==
  /\ UNCHANGED <<record, ret, val, reverse_offset, decompressed, data, compressed>>
  /\ UNCHANGED <<original, arrayVars, sampleVars, objectVars, dictionaryVars, metadataVars>>
  /\ UNCHANGED runVars

\* record.increment(from)
Increment ==
  /\ TotalIncrements < MaxIncrements
  /\ \E from \in NodeSet :
       /\ incoming' = increment(incoming, from)
       /\ increments' = [increments EXCEPT ![from] = @ + 1]
  /\ call' = [NoCall EXCEPT !.op = "increment"]
  /\ UNCHANGED counted
  /\ IncomingFrame

\* record.countBefore(from) and record.countUntil(from)
CountIncoming ==
  /\ \E from \in CountNodes :
       counted' = [node |-> from,
                   before |-> countBefore(incoming, from),
                   until |-> countUntil(incoming, from)]
  /\ call' = [NoCall EXCEPT !.op = "count"]
  /\ UNCHANGED <<incoming, increments>>
  /\ IncomingFrame

NextIncoming ==
  \/ Increment
  \/ CountIncoming

SpecIncoming == InitIncoming /\ [][NextIncoming]_vars

(***************************************************************************)
(* What the claims speak of: the record read position by position.         *)
(***************************************************************************)
\* The rank of every position of a body, in order.
RECURSIVE RankSeq(_)
RankSeq(body) ==
  IF body = <<>> THEN <<>>
  ELSE [j \in 1..body[1][2] |-> body[1][1]] \o RankSeq(Tail(body))

\* The rank / successor node of position j (0-based) of record r.
RankAt(r, j) == RankSeq(r.body)[j + 1]

NodeAt(r, j) == successor(r, RankAt(r, j))

\* Number of positions j < i of r whose rank is k / whose successor is `to`.
OccRank(r, i, k) ==
  Cardinality({j \in 0..(i - 1) : j < Len(RankSeq(r.body)) /\ RankAt(r, j) = k})

OccNode(r, i, to) ==
  Cardinality({j \in 0..(i - 1) : j < Len(RankSeq(r.body)) /\ NodeAt(r, j) = to})

\* The query is a non-empty range inside the record with a target in outgoing.
InsideQuery ==
  /\ ~RangeEmpty(call.range)
  /\ call.range[2] < size(record)
  /\ hasEdge(record, call.to)

\* C1: r.LF(i) is (successor(k), offset(k) + number of positions j < i of
\* rank k) for the rank k of position i < r.size(), and invalid_edge() for
\* every i >= r.size(); on the two-successor scenario LF(0) = (4,0),
\* LF(2) = (6,3), LF(4) = (6,5), LF(5) = (4,2).
ClaimC1_LF ==
  call.op = "LF" =>
    /\ call.i < size(record) =>
         ret = <<successor(record, RankAt(record, call.i)),
                 Add(offset(record, RankAt(record, call.i)),
                     OccRank(record, call.i, RankAt(record, call.i)))>>
    /\ call.i >= size(record) => ret = invalid_edge
    /\ record = Scenario2 =>
         /\ size(record) = 6
         /\ call.i = 0 => ret = <<4, 0>>
         /\ call.i = 2 => ret = <<6, 3>>
         /\ call.i = 4 => ret = <<6, 5>>
         /\ call.i = 5 => ret = <<4, 2>>

WitnessC1 == call.op = "LF" /\ record = Scenario2 /\ call.i = 4 /\ ret = <<6, 5>>

\* C2: for `to` in outgoing and 0 <= i <= r.size(), r.LF(i, to) is
\* offset(edgeTo(to)) plus the number of positions j < i with r[j] = to.
ClaimC2_LFto ==
  (call.op = "LFto" /\ hasEdge(record, call.to) /\ call.i <= size(record)) =>
    val = Add(offset(record, edgeToLinear(record, call.to)),
              OccNode(record, call.i, call.to))

WitnessC2 ==
  /\ call.op = "LFto"
  /\ hasEdge(record, call.to)
  /\ call.i = size(record)
  /\ Len(record.body) = 3
  /\ OccNode(record, call.i, call.to) = 2
  /\ val = offset(record, edgeToLinear(record, call.to)) + 2

\* C3: for a non-empty range (a, b) with b < r.size() and `to` in outgoing,
\* r.LF((a, b), to) = (r.LF(a, to), r.LF(b + 1, to) - 1).
ClaimC3_LFrange ==
  (call.op = "LFrange" /\ InsideQuery) =>
    ret = <<LFto(record, call.range[1], call.to),
            Sub(LFto(record, Add(call.range[2], 1), call.to), 1)>>

WitnessC3 ==
  /\ call.op = "LFrange"
  /\ InsideQuery
  /\ call.range[1] > 0
  /\ call.range[2] > call.range[1]
  /\ Len(record.body) >= 2
  /\ ret[2] > ret[1]

\* Number of positions of the range whose successor x has
\* Node::reverse(x) < Node::reverse(to) / is `to` itself.
ReverseSmaller(r, range, to) ==
  Cardinality({j \in range[1]..range[2] : NodeReverse(NodeAt(r, j)) < NodeReverse(to)})

EqualCount(r, range, to) ==
  Cardinality({j \in range[1]..range[2] : NodeAt(r, j) = to})

\* C4: on a record with sorted, unique successors, for a non-empty range
\* inside the record and `to` in outgoing, bdLF leaves in reverse_offset the
\* number of positions j of the range with reverse(r[j]) < reverse(to).
ClaimC4_bdLFReverseOffset ==
  (call.op = "bdLF" /\ InsideQuery) =>
    reverse_offset = ReverseSmaller(record, call.range, call.to)

\* Case 2 (reverse(to) present, `to` forward), with positions of `to`, of
\* reverse(to) and of a smaller node inside the range.
WitnessC4 ==
  /\ call.op = "bdLF"
  /\ InsideQuery
  /\ ~NodeIsReverse(call.to)
  /\ hasEdge(record, NodeReverse(call.to))
  /\ EqualCount(record, call.range, call.to) > 0
  /\ EqualCount(record, call.range, NodeReverse(call.to)) > 0
  /\ \E j \in call.range[1]..call.range[2] : NodeAt(record, j) < call.to
  /\ reverse_offset >= 2
  /\ reverse_offset < RangeLength(call.range)

\* C5: the forward range bdLF returns is r.LF(range, to), for every range
\* and node (empty ranges and targets outside outgoing included).
ClaimC5_bdLFForward ==
  call.op = "bdLF" => ret = LFrange(record, call.range, call.to)

WitnessC5 ==
  /\ call.op = "bdLF"
  /\ InsideQuery
  /\ call.range[1] > 0
  /\ RangeLength(ret) >= 2

\* C6 as stated: reverse_offset + equal_count + size of the forward range
\* <= size of the query range.
ClaimC6_Original ==
  (call.op = "bdLF" /\ InsideQuery) =>
    reverse_offset + EqualCount(record, call.range, call.to) + RangeLength(ret)
      <= RangeLength(call.range)

\* C6, amended: the forward range has exactly equal_count positions, and
\* reverse_offset + equal_count <= size of the query range.
ClaimC6_Amended ==
  (call.op = "bdLF" /\ InsideQuery) =>
    /\ RangeLength(ret) = EqualCount(record, call.range, call.to)
    /\ reverse_offset + EqualCount(record, call.range, call.to)
         <= RangeLength(call.range)

WitnessC6 ==
  /\ call.op = "bdLF"
  /\ InsideQuery
  /\ reverse_offset > 0
  /\ EqualCount(record, call.range, call.to) > 0
  /\ reverse_offset + RangeLength(ret) = RangeLength(call.range)

\* The bidirectional scenario: bdLF((0,5), 6, ro) on the three-successor record.
Scenario4Call ==
  /\ record = Scenario4
  /\ call.op = "bdLF"
  /\ call.range = <<0, 5>>
  /\ call.to = 6

\* C7 as stated: the call returns [30, 31] and sets ro to 4.
ClaimC7_Original == Scenario4Call => (ret = <<30, 31>> /\ reverse_offset = 4)

\* C7, amended: the call returns [30, 30] (node 6 occurs once) and sets ro
\* to 5 (the five positions of ranks 0 and 1).
ClaimC7_Amended == Scenario4Call => (ret = <<30, 30>> /\ reverse_offset = 5)

WitnessC7 == Scenario4Call /\ ret[1] = 30

\* C8: for `to` in outgoing and i > r.size(), r.LF(i, to) is invalid_offset().
ClaimC8_OutOfRange ==
  (call.op = "LFto" /\ hasEdge(record, call.to) /\ call.i > size(record)) =>
    val = invalid_offset

\* C9: d.size() = r.size(); d.LF(i) = r.LF(i) and d[i] = r[i] for i < size;
\* invalid_edge() and ENDMARKER for i >= size.
ClaimC9_Decompressed ==
  /\ call.op \in {"decompress", "dLF", "dAt"} =>
       DecompressedSize(decompressed) = size(record)
  /\ call.op = "dLF" =>
       /\ ret = LF(record, call.i)
       /\ call.i >= size(record) => ret = invalid_edge
  /\ call.op = "dAt" =>
       /\ val = DynamicAt(record, call.i)
       /\ call.i >= size(record) => val = ENDMARKER

WitnessC9 ==
  /\ call.op = "dLF"
  /\ call.i < size(record)
  /\ ret[2] >= offset(record, RankAt(record, call.i)) + 2
  /\ Len(record.body) >= 2

\* C10: decoding the bytes of r.writeBWT gives back the outgoing list and
\* the run sequence of r, and the DecompressedRecord built from the
\* CompressedRecord has the body of the DecompressedRecord built from r.
ClaimC10_RoundTrip ==
  /\ call.op \in {"compress", "decompressC"} =>
       /\ compressed.outgoing = record.outgoing
       /\ CompressedRuns(compressed, data) = record.body
  /\ call.op = "decompressC" =>
       decompressed.body = DecompressedFromDynamic(record).body

WitnessC10 ==
  /\ call.op = "decompressC"
  /\ call.i = 1
  /\ Len(record.outgoing) = 3
  /\ record.outgoing[1][1] > record.outgoing[2][1]
  /\ Len(record.body) >= 3
  /\ Len(decompressed.body) = MaxSize

\* r and q have the same size and the same successor at every position.
SameSuccessors(r, q) ==
  /\ size(r) = size(q)
  /\ ValidRecord(r) => \A i \in 0..(size(q) - 1) : DynamicAt(r, i) = DynamicAt(q, i)

\* C11: for a record with unique successors and valid ranks, sorted or not,
\* after recode() every body rank is below the outdegree, r[i] and r.LF(i)
\* are what they were before for every i < r.size(), and one more recode()
\* leaves outgoing and body as they are.
ClaimC11_Recode ==
  call.op = "recode" =>
    /\ ValidRecord(record)
    /\ SameSuccessors(record, original)
    /\ \A i \in 0..(size(original) - 1) : LF(record, i) = LF(original, i)
    /\ recode(record).outgoing = record.outgoing
    /\ recode(record).body = record.body

\* recode() was applied twice to a record whose outgoing list was not sorted
\* and whose body names more than one edge.
WitnessC11 ==
  /\ call.op = "recode"
  /\ call.i = 2
  /\ ~recodeSorted(original)
  /\ Cardinality(usedRanks(original)) >= 2
  /\ record.body # original.body

\* The outgoing edges of r that some run names, in the order of outgoing.
UsedEdges(r) == SelectSeq(r.outgoing, LAMBDA e : \E k \in 1..Len(r.body) :
                                         r.outgoing[r.body[k][1] + 1] = e)

\* What C12 says of a record after removeUnusedEdges().
RemoveContract ==
  /\ ValidRecord(record)
  /\ SameSuccessors(record, original)
  /\ record.outgoing = UsedEdges(original)
  /\ removeUnusedEdges(record) = record

\* C12 (as stated): for any record with valid ranks, sorted or not,
\* removeUnusedEdges() keeps r[i], keeps exactly the edges some run names, in
\* their order and with their offsets, leaves every rank below the
\* outdegree, and changes nothing when called again.
ClaimC12_Original ==
  call.op = "removeUnusedEdges" => RemoveContract

\* C12 (amended): the same for every record whose outgoing list is sorted by
\* successor.
ClaimC12_Amended ==
  (call.op = "removeUnusedEdges" /\ recodeSorted(original)) => RemoveContract

\* removeUnusedEdges() was applied twice to a sorted record with an unused
\* edge below a used one.
WitnessC12 ==
  /\ call.op = "removeUnusedEdges"
  /\ call.i = 2
  /\ recodeSorted(original)
  /\ outdegree(original) = 3
  /\ usedRanks(original) = {1, 2}

\* data[start(k), limit(k)) of a RecordArray.
RecordBytes(a, k) ==
  SubSeq(a.data, RecordArrayStart(a, k) + 1, RecordArrayLimit(a, k))

\* C13: in a RecordArray built from a vector of records, records is the
\* length of the vector, the index has one 1-bit per record, the records
\* start at strictly increasing positions, the bytes from start(k) to
\* limit(k) are the writeBWT encoding of record k, and a record of outdegree
\* 0 is the single byte 0.
ClaimC13_RecordArray ==
  call.op \in {"RecordArray", "record"} =>
    /\ array.records = Len(bwt)
    /\ Len(array.index) = Len(array.data)
    /\ Ones(array.index) = Len(bwt)
    /\ \A k \in 0..(Len(bwt) - 1) :
         /\ RecordArrayStart(array, k) < RecordArrayLimit(array, k)
         /\ RecordBytes(array, k) = writeBWT(<<>>, bwt[k + 1])
         /\ outdegree(bwt[k + 1]) = 0 => RecordBytes(array, k) = <<0>>
    /\ call.op = "record" =>
         compressed.outgoing = bwt[call.i + 1].outgoing

\* The last record of an array of three was read back; the array holds an
\* empty record between two records with edges.
WitnessC13 ==
  /\ call.op = "record"
  /\ call.i = 2
  /\ Len(bwt) = 3
  /\ bwt[1] = WideRecord
  /\ bwt[2] = EmptyRecord
  /\ bwt[3] = Scenario2
  /\ compressed.outgoing = Scenario2.outgoing

\* The merge constructor has run.
Merged == call.op \in {"merge", "record"} /\ sources # <<>>

\* C14: in a merged RecordArray, for every destination record j >= 1, the
\* bytes of record j are the bytes of record j - record_offsets[s] of the
\* source s = origins[j], whatever records of the sources origins leaves
\* out, and the single byte 0 when origins[j] names no source.
ClaimC14_MergeCopies ==
  Merged =>
    \A j \in 1..(Len(origins) - 1) :
      IF origins[j + 1] < Len(sources)
      THEN RecordBytes(array, j) =
             RecordBytes(sources[origins[j + 1] + 1],
                         j - record_offsets[origins[j + 1] + 1])
      ELSE RecordBytes(array, j) = <<0>>

\* The sources are two arrays whose endmarker records are
\* (outgoing = [(1,0)], body = [(0,3)]) and (outgoing = [(2,0)], body = [(0,2)]).
Scenario5 ==
  /\ Merged
  /\ Len(sources) = 2
  /\ ~RecordArrayEmpty(sources[1])
  /\ ~RecordArrayEmpty(sources[2])
  /\ RecordBytes(sources[1], ENDMARKER) = writeBWT(<<>>, Endmarker1)
  /\ RecordBytes(sources[2], ENDMARKER) = writeBWT(<<>>, Endmarker2)

\* The endmarker record read back from the merged array.
StoredEndmarker ==
  CompressedRecordOf(array.data, RecordArrayStart(array, ENDMARKER),
                     RecordArrayLimit(array, ENDMARKER))

\* C15 (as stated): merging two arrays with the endmarker records
\* ([(1,0)], [(0,3)]) and ([(2,0)], [(0,2)]) gives a merged endmarker with
\* outgoing = [(1,0),(2,3)], body = [(0,3),(1,2)] and body_size = 5.
ClaimC15_Original ==
  Scenario5 =>
    /\ merged.outgoing = <<<<1, 0>>, <<2, 3>>>>
    /\ merged.body = <<<<0, 3>>, <<1, 2>>>>
    /\ merged.body_size = 5

\* C15 (amended): the merged endmarker has outgoing = [(1,0),(2,0)],
\* body = [(0,3),(1,2)] and body_size = 5, and is what the merged array
\* stores as record 0.
ClaimC15_Amended ==
  Scenario5 =>
    /\ merged.outgoing = <<<<1, 0>>, <<2, 0>>>>
    /\ merged.body = <<<<0, 3>>, <<1, 2>>>>
    /\ merged.body_size = 5
    /\ StoredEndmarker.outgoing = merged.outgoing
    /\ CompressedRuns(StoredEndmarker, array.data) = merged.body

\* The two arrays of the scenario, with further records, were merged.
WitnessC15 ==
  /\ Scenario5
  /\ call.op = "merge"
  /\ Len(origins) > 2
  /\ merged.body_size = 5

\* The samples of record rec of the vector the DASamples was built from.
IdsOf(rec) == bwt[rec + 1].ids

\* The sequence id record rec carries at offset off, if any.
HasSampleAt(rec, off) == \E k \in 1..Len(IdsOf(rec)) : IdsOf(rec)[k][1] = off

SampleAt(rec, off) ==
  IdsOf(rec)[CHOOSE k \in 1..Len(IdsOf(rec)) : IdsOf(rec)[k][1] = off][2]

\* A tryLocate / nextSample call on a DASamples built from records.
Located == call.op = "tryLocate" /\ sample_sources = <<>>

Nexted == call.op = "nextSample" /\ sample_sources = <<>>

\* C16: for a DASamples built from records, tryLocate(k, offset) is s for
\* every sample (offset, s) of record k, and invalid_sequence() for every
\* record without samples and for every offset < size of a sampled record
\* that carries no sample.
ClaimC16_TryLocate ==
  Located =>
    LET rec == position.record
        off == position.offset
    IN /\ HasSampleAt(rec, off) => val = SampleAt(rec, off)
       /\ IdsOf(rec) = <<>> => val = invalid_sequence
       /\ (IdsOf(rec) # <<>> /\ off < size(bwt[rec + 1]) /\ ~HasSampleAt(rec, off))
            => val = invalid_sequence

\* tryLocate(1, 5) found the sample 99 of the scenario's record, which
\* follows another sampled record.
WitnessC16 ==
  /\ Located
  /\ Len(bwt) = 3
  /\ bwt[1] = WithSamples(Scenario1, <<<<4, 3>>>>)
  /\ bwt[2] = Scenario6
  /\ position = [record |-> 1, offset |-> 5]
  /\ val = 99

\* C17: for a sampled record and an offset >= the record's size,
\* tryLocate returns invalid_sequence().
ClaimC17_TryLocatePastEnd ==
  (Located /\ IdsOf(position.record) # <<>>
           /\ position.offset >= size(bwt[position.record + 1]))
    => val = invalid_sequence

\* The sizes of the sampled records from rec up to, not including, q: the
\* distance between their starts in the concatenated sample space.
RECURSIVE SampledSizes(_, _)
SampledSizes(rec, q) ==
  IF rec >= q THEN 0
  ELSE (IF IdsOf(rec) # <<>> THEN size(bwt[rec + 1]) ELSE 0) + SampledSizes(rec + 1, q)

\* The samples (q, k) at or after offset off of record rec in the
\* concatenated sample space, and the position of a sample from the start
\* of record rec.
SamplesFrom(rec, off) ==
  {qk \in UNION {{<<q, k>> : k \in 1..Len(IdsOf(q))} : q \in rec..(Len(bwt) - 1)} :
     SampledSizes(rec, qk[1]) + IdsOf(qk[1])[qk[2]][1] >= off}

LocalOffset(rec, qk) == SampledSizes(rec, qk[1]) + IdsOf(qk[1])[qk[2]][1]

\* C18: nextSample(rec, offset) is invalid_sample() for a record without
\* samples; for a sampled record it is the first sample at or after
\* position start(rec) + offset of the concatenated sample space, as
\* (position - start(rec), id): the smallest (offset', id) of the record with
\* offset' >= offset when there is one, and otherwise a sample of a later
\* sampled record, with a local offset >= the size of the record asked.
ClaimC18_NextSample ==
  Nexted =>
    LET rec == position.record
        off == position.offset
        here == {k \in 1..Len(IdsOf(rec)) : IdsOf(rec)[k][1] >= off}
        from == SamplesFrom(rec, off)
    IN /\ IdsOf(rec) = <<>> => ret = invalid_sample
       /\ (IdsOf(rec) # <<>> /\ from # {}) =>
            \E qk \in from :
              /\ \A other \in from : LocalOffset(rec, qk) <= LocalOffset(rec, other)
              /\ ret = <<LocalOffset(rec, qk), IdsOf(qk[1])[qk[2]][2]>>
       /\ here # {} =>
            \E k \in here : (\A m \in here : k <= m) /\ ret = IdsOf(rec)[k]
       /\ (IdsOf(rec) # <<>> /\ here = {} /\ from # {}) =>
            /\ ret[1] >= size(bwt[rec + 1])
            /\ ret # invalid_sample

\* nextSample went past the last sample of a record and returned the first
\* sample of the next sampled record.
WitnessC18 ==
  /\ Nexted
  /\ Len(bwt) = 3
  /\ bwt[1] = WithSamples(Scenario1, <<<<0, 1>>>>)
  /\ bwt[2] = WithSamples(Scenario1, <<>>)
  /\ bwt[3] = Scenario6
  /\ position = [record |-> 0, offset |-> 1]
  /\ ret = <<7, 7>>

\* The merge constructor of DASamples has run.
SamplesMerged == call.op \in {"DASamplesMerge", "tryLocate", "nextSample"} /\ sample_sources # <<>>

\* tryLocate on a source, with the sequence id shifted by shift.
ShiftedLocate(d, rec, off, shift) ==
  IF tryLocate(d, rec, off) = invalid_sequence THEN invalid_sequence
  ELSE Add(tryLocate(d, rec, off), shift)

\* What C19 says of destination record j >= 1 with a source.
MergedRecordAgrees(j) ==
  LET s == origins[j + 1]
      d == sample_sources[s + 1]
      local == j - record_offsets[s + 1]
  IN IF isSampled(d, local)
     THEN /\ isSampled(samples, j)
          /\ \A off \in 0..(SampledSize(d, local) - 1) :
               tryLocate(samples, j, off)
                 = ShiftedLocate(d, local, off, sequenceOffsets(sequence_counts)[s + 1])
     ELSE \A off \in 0..MaxPast : tryLocate(samples, j, off) = invalid_sequence

\* What C19 says of the endmarker.
MergedEndmarkerAgrees ==
  /\ \A k \in EndmarkerSampled(sample_sources) :
       \A off \in 0..(SampledSize(sample_sources[k], ENDMARKER) - 1) :
         tryLocate(sample_sources[k], ENDMARKER, off) # invalid_sequence =>
           tryLocate(samples, ENDMARKER, off + sequenceOffsets(sequence_counts)[k])
             = Add(tryLocate(sample_sources[k], ENDMARKER, off),
                   sequenceOffsets(sequence_counts)[k])
  /\ EndmarkerSampled(sample_sources) # {} =>
       /\ isSampled(samples, ENDMARKER)
       /\ SampledSize(samples, ENDMARKER) = totalSequences(sequence_counts)

\* C19: in a merged DASamples, for every destination record j >= 1 with
\* source s and every offset inside the record, tryLocate(j, offset) is the
\* source's tryLocate(j - record_offsets[s], offset) + sequence_offset[s]
\* where the source has a sample and invalid_sequence() elsewhere; every
\* sample (offset, id) of a source's endmarker is in the merged endmarker at
\* offset + sequence_offset[s] with id + sequence_offset[s], and the merged
\* endmarker range is as long as the total number of sequences.
ClaimC19_MergedSamples ==
  SamplesMerged =>
    /\ MergedEndmarkerAgrees
    /\ \A j \in 1..(Len(origins) - 1) :
         origins[j + 1] < Len(sample_sources) => MergedRecordAgrees(j)

\* Two sources with a sampled endmarker were merged, and a sample of a record
\* of the second source was located with its sequence id shifted.
WitnessC19 ==
  /\ SamplesMerged
  /\ call.op = "tryLocate"
  /\ Len(sample_sources) = 2
  /\ EndmarkerSampled(sample_sources) = {1, 2}
  /\ position.record >= 1
  /\ origins[position.record + 1] = 1
  /\ sequenceOffsets(sequence_counts)[2] > 0
  /\ val # invalid_sequence
  /\ val = Add(tryLocate(sample_sources[2], position.record - record_offsets[2],
                         position.offset),
               sequenceOffsets(sequence_counts)[2])

\* The object holds data.
RecordArrayHoldsData(a) == a.index # 0

DASamplesHoldsData(d) ==
  d.sampled_records # 0 \/ d.bwt_ranges # 0 \/ d.sampled_offsets # 0 \/ d.array # 0

\* C20: after any sequence of construction, copy construction, copy
\* assignment, move construction, move assignment, swap and load on
\* RecordArray and DASamples objects, every rank/select support of every
\* object that holds data (select; record_rank, bwt_select, sample_rank)
\* refers to the bit vector of that same object.
ClaimC20_SupportsReferToOwnVectors ==
  \A o \in Objects :
    /\ RecordArrayHoldsData(arrayObjects[o]) =>
         arrayObjects[o].select = AddressOf(o, "index")
    /\ DASamplesHoldsData(sampleObjects[o]) =>
         /\ sampleObjects[o].record_rank = AddressOf(o, "sampled_records")
         /\ sampleObjects[o].bwt_select = AddressOf(o, "bwt_ranges")
         /\ sampleObjects[o].sample_rank = AddressOf(o, "sampled_offsets")

\* A RecordArray was just copied from another that holds data and its select
\* refers to its own index, while a DASamples object holds what another
\* object was built with and its supports refer to its own vectors.
WitnessC20 ==
  /\ call.op \in {"RecordArray(const&)", "RecordArray=(const&)"}
  /\ \E o \in Objects, q \in Objects :
       /\ o # q
       /\ RecordArrayHoldsData(arrayObjects[q])
       /\ arrayObjects[o].index = arrayObjects[q].index
       /\ arrayObjects[o].select = AddressOf(o, "index")
       /\ arrayObjects[q].select = AddressOf(q, "index")
  /\ \E o \in Objects, q \in Objects :
       /\ o # q
       /\ DASamplesHoldsData(sampleObjects[o])
       /\ DASamplesHoldsData(sampleObjects[q])
       /\ sampleObjects[o].array # sampleObjects[q].array
       /\ sampleObjects[o].bwt_select = AddressOf(o, "bwt_ranges")

\* A non-empty dictionary was appended.
Appended == call.op = "append" /\ ~DictionaryEmpty(appended)

\* C21: after a.append(b) with b non-empty, a.size() is old_size + b.size(),
\* the string with id i is unchanged for every i < old_size, the string with
\* id old_size + k is b's string k, and sorted_ids is a permutation of all
\* the ids that orders the strings lexicographically.
ClaimC21_Append ==
  Appended =>
    /\ DictionarySize(dictionary)
         = DictionarySize(dictionary_before) + DictionarySize(appended)
    /\ DictionaryWellFormed(dictionary)
    /\ \A i \in 0..(DictionarySize(dictionary_before) - 1) :
         DictionaryString(dictionary, i) = DictionaryString(dictionary_before, i)
    /\ \A k \in 0..(DictionarySize(appended) - 1) :
         DictionaryString(dictionary, DictionarySize(dictionary_before) + k)
           = DictionaryString(appended, k)
    /\ dictionary.sorted_ids \in IdOrders(DictionarySize(dictionary))
    /\ \A k \in 0..(DictionarySize(dictionary) - 2) :
         ~smaller(dictionary, dictionary.sorted_ids, k + 1, k)

\* Metadata::merge has run.
MetadataMerged == call.op \in {"Metadata::merge", "Metadata::serialize"}

SameCounts(m, q) ==
  /\ m.sample_count = q.sample_count
  /\ m.haplotype_count = q.haplotype_count
  /\ m.contig_count = q.contig_count

\* C22: merge(src, same_samples = true, same_contigs = true) keeps the
\* destination's sample, haplotype and contig counts, and a destination
\* without sample (contig) names has afterwards the names of a source that
\* has them: hasSampleNames() (hasContigNames()) is true, the names are the
\* source's, and serialize writes them.
ClaimC22_MergeSameInheritsNames ==
  (MetadataMerged /\ same = <<TRUE, TRUE>>) =>
    /\ SameCounts(metadata, metadata_before)
    /\ (~hasSampleNames(metadata_before) /\ hasSampleNames(metadata_source)) =>
         /\ metadata.sample_names = metadata_source.sample_names
         /\ hasSampleNames(metadata)
         /\ call.op = "Metadata::serialize" =>
              serialized[1].sample_names = <<metadata_source.sample_names>>
    /\ (~hasContigNames(metadata_before) /\ hasContigNames(metadata_source)) =>
         /\ metadata.contig_names = metadata_source.contig_names
         /\ hasContigNames(metadata)
         /\ call.op = "Metadata::serialize" =>
              serialized[1].contig_names = <<metadata_source.contig_names>>

\* C23: merge(src, same_samples = false, same_contigs = false) adds the
\* source's sample, haplotype and contig counts to the destination's; when
\* both have path names the destination's own paths are unchanged and each
\* appended source path has its sample increased by the sample count and its
\* contig by the contig count the destination had before; when only the
\* destination has path names they are cleared and the flag is unset.
ClaimC23_MergeDifferentShiftsPaths ==
  (MetadataMerged /\ same = <<FALSE, FALSE>>) =>
    /\ metadata.sample_count
         = Add(metadata_before.sample_count, metadata_source.sample_count)
    /\ metadata.haplotype_count
         = Add(metadata_before.haplotype_count, metadata_source.haplotype_count)
    /\ metadata.contig_count
         = Add(metadata_before.contig_count, metadata_source.contig_count)
    /\ (hasPathNames(metadata_before) /\ hasPathNames(metadata_source)) =>
         /\ hasPathNames(metadata)
         /\ Len(metadata.path_names)
              = Len(metadata_before.path_names) + Len(metadata_source.path_names)
         /\ \A i \in 1..Len(metadata_before.path_names) :
              metadata.path_names[i] = metadata_before.path_names[i]
         /\ \A i \in 1..Len(metadata_source.path_names) :
              metadata.path_names[Len(metadata_before.path_names) + i]
                = [metadata_source.path_names[i] EXCEPT
                     !.sample = Add(@, metadata_before.sample_count),
                     !.contig = Add(@, metadata_before.contig_count)]
    /\ (hasPathNames(metadata_before) /\ ~hasPathNames(metadata_source)) =>
         /\ metadata.path_names = <<>>
         /\ ~hasPathNames(metadata)

\* Two Metadata with two paths each were merged as different samples and
\* contigs: the last path is the source's last, shifted by the counts before.
WitnessC23 ==
  /\ MetadataMerged
  /\ same = <<FALSE, FALSE>>
  /\ Len(metadata_before.path_names) = 2
  /\ Len(metadata_source.path_names) = 2
  /\ metadata_before.sample_count = 2
  /\ metadata_before.contig_count = 2
  /\ metadata_source.path_names[2] = PathName(1, 0)
  /\ metadata.path_names[4] = PathName(3, 2)

\* The count of a node in the incoming edges: 0 when it is no predecessor.
CountOf(edges, v) ==
  IF \E k \in 1..Len(edges) : edges[k][1] = v
  THEN edges[CHOOSE k \in 1..Len(edges) : edges[k][1] = v][2]
  ELSE 0

RECURSIVE SumCountsOf(_)
SumCountsOf(edges) == IF edges = <<>> THEN 0 ELSE edges[1][2] + SumCountsOf(Tail(edges))

\* C24: from an empty record, after any sequence of increment(from) calls,
\* incoming is sorted by predecessor with no predecessor twice, the count of
\* each node is the number of increment calls made with it, the counts sum
\* to the number of calls, and countUntil(v) - countBefore(v) is the count
\* of v (0 when v is no predecessor).
ClaimC24_Increment ==
  /\ \A k \in 1..(Len(incoming) - 1) : incoming[k][1] < incoming[k + 1][1]
  /\ \A v \in CountNodes : CountOf(incoming, v) = increments[v]
  /\ SumCountsOf(incoming) = TotalIncrements
  /\ \A v \in CountNodes :
       Sub(countUntil(incoming, v), countBefore(incoming, v)) = CountOf(incoming, v)
  /\ call.op = "count" =>
       Sub(counted.until, counted.before) = increments[counted.node]

\* Three nodes were incremented, the middle one twice, and the counts of the
\* middle one were asked for.
WitnessC24 ==
  /\ call.op = "count"
  /\ Len(incoming) = 3
  /\ counted.node = incoming[2][1]
  /\ incoming[2][2] = 2
  /\ counted.before = 1
  /\ counted.until = 3

\* The endmarker record of a source that has records, read from its bytes.
SourceEndmarker(a) ==
  LET rec == CompressedRecordOf(a.data, RecordArrayStart(a, ENDMARKER),
                                RecordArrayLimit(a, ENDMARKER))
      runs == CompressedRuns(rec, a.data)
  IN [outgoing |-> rec.outgoing, body |-> runs, body_size |-> SumRuns(runs)]

\* The successor sequence r[0..size) of a record.
SuccessorsOf(r) == [i \in 1..size(r) |-> DynamicAt(r, i - 1)]

\* The successor sequences of the endmarkers of the first k sources, one
\* after the other.
RECURSIVE EndmarkerSuccessors(_, _)
EndmarkerSuccessors(srcs, k) ==
  IF k = 0 THEN <<>>
  ELSE EndmarkerSuccessors(srcs, k - 1)
         \o (IF RecordArrayEmpty(srcs[k]) THEN <<>>
             ELSE SuccessorsOf(SourceEndmarker(srcs[k])))

\* C25: in the merge constructor of RecordArray, the merged endmarker has
\* the size of the endmarkers of the non-empty sources together, its
\* successor sequence is theirs one after the other in source order, every
\* body rank is below the merged outdegree, and outgoing is sorted by
\* successor after recode().
ClaimC25_MergedEndmarker ==
  Merged =>
    /\ ValidRecord(merged)
    /\ size(merged) = Len(EndmarkerSuccessors(sources, Len(sources)))
    /\ SuccessorsOf(merged) = EndmarkerSuccessors(sources, Len(sources))
    /\ \A k \in 1..(outdegree(merged) - 1) :
         merged.outgoing[k][1] <= merged.outgoing[k + 1][1]

\* Two sources were merged, the endmarker of the first with two successors
\* larger than the successor of the endmarker of the second.
WitnessC25 ==
  /\ Merged
  /\ Len(sources) = 2
  /\ ~RecordArrayEmpty(sources[1])
  /\ ~RecordArrayEmpty(sources[2])
  /\ outdegree(SourceEndmarker(sources[1])) = 2
  /\ successor(SourceEndmarker(sources[1]), 0) > successor(SourceEndmarker(sources[2]), 0)
  /\ outdegree(merged) = 3
  /\ size(merged) > size(SourceEndmarker(sources[1]))

\* runLF() was called on the record and on its DecompressedRecord at a
\* position inside the record.
RanLF == call.op = "runLF" /\ call.i < size(record)

\* i <= run_end < size, and every position of [i, run_end] has the successor
\* of position i.
RunEndInside(run_end) ==
  /\ call.i <= run_end
  /\ run_end < size(record)
  /\ \A p \in call.i..run_end : DynamicAt(record, p) = DynamicAt(record, call.i)

\* The run of the body that holds position i: the first whose end is past i.
RunOf(body, i) ==
  CHOOSE k \in 1..Len(body) :
    /\ SumRuns(SubSeq(body, 1, k)) > i
    /\ SumRuns(SubSeq(body, 1, k - 1)) <= i

\* The run that holds position i is followed by a run with the same rank.
SameRankNext(body, i) ==
  /\ RunOf(body, i) < Len(body)
  /\ body[RunOf(body, i) + 1][1] = body[RunOf(body, i)][1]

\* C26 (as stated): for a record r, whose body may have consecutive runs with
\* the same rank, and the DecompressedRecord d built from it, for every
\* i < r.size() the run_end of d.runLF(i) is the run_end of r.runLF(i), and
\* in both i <= run_end < size with every position in [i, run_end] having
\* the successor of position i.
ClaimC26_Original ==
  RanLF =>
    /\ run_ends.decompressed = run_ends.dynamic
    /\ RunEndInside(run_ends.dynamic)
    /\ RunEndInside(run_ends.decompressed)

\* C26 (amended): the run_end of d.runLF(i) is the run_end of r.runLF(i)
\* when the run of r's body that holds i is not followed by a run with the
\* same rank, and larger when it is; in both i <= run_end < size with every
\* position in [i, run_end] having the successor of position i.
ClaimC26_Amended ==
  RanLF =>
    /\ IF SameRankNext(record.body, call.i)
       THEN run_ends.decompressed > run_ends.dynamic
       ELSE run_ends.decompressed = run_ends.dynamic
    /\ RunEndInside(run_ends.dynamic)
    /\ RunEndInside(run_ends.decompressed)

\* runLF() was called inside the first of two consecutive runs with the same
\* rank, which another successor follows: the record stops at the end of its
\* run, the DecompressedRecord at the end of the second.
WitnessC26 ==
  /\ RanLF
  /\ Len(record.body) = 3
  /\ record.body[1][1] = record.body[2][1]
  /\ record.body[3][1] # record.body[2][1]
  /\ call.i = 0
  /\ run_ends.dynamic = record.body[1][2] - 1
  /\ run_ends.decompressed = record.body[1][2] + record.body[2][2] - 1

====
